---- MODULE Spec2Model ----
(***************************************************************************)
(* ACC Supercharger: the cache-building pipeline (lib/cache-builder.js),   *)
(* its paginated fetchers (lib/*-api.js), the staleness predicate and the  *)
(* single-flight build orchestrator of the service worker (background.js), *)
(* with the content script's cache loader (content.js).                    *)
(*                                                                         *)
(* Conventions of the model                                                *)
(*   - an id is a natural number; 0 stands for a falsy/missing id, and the *)
(*     order of the numbers stands for the string order of the ids;        *)
(*   - a name is a sequence of character codes (<<>> is the empty or       *)
(*     missing name), so that trimming, lower-casing and comparison are    *)
(*     computed and not assumed;                                           *)
(*   - a timestamp is a natural number of milliseconds; Absent (-1) stands *)
(*     for undefined/null.                                                 *)
(***************************************************************************)
EXTENDS Integers, Sequences, FiniteSets, TLC

\* ------------------------------------------------------------------------
\* Generic helpers on sequences
\* ------------------------------------------------------------------------

Range(s) == { s[i] : i \in 1..Len(s) }

\* F(x) with x evaluated once, however often F uses its argument
With(x, F(_)) == CHOOSE r \in { F(v) : v \in {x} } : TRUE

Min2(a, b) == IF a < b THEN a ELSE b

\* s without its first n elements
Drop(s, n) == IF n >= Len(s) THEN <<>> ELSE SubSeq(s, n + 1, Len(s))

\* the first n elements of s
Take(s, n) == SubSeq(s, 1, Min2(n, Len(s)))

\* all sequences over S of length at most n
SeqsUpTo(S, n) == UNION { [1..k -> S] : k \in 0..n }

\* ------------------------------------------------------------------------
\* Strings as sequences of character codes
\* ------------------------------------------------------------------------

SPACE == 32

\* String.prototype.trim
RECURSIVE TrimLeft(_)
TrimLeft(s) ==
    IF s = <<>> THEN <<>>
    ELSE IF Head(s) = SPACE THEN TrimLeft(Tail(s)) ELSE s

RECURSIVE TrimRight(_)
TrimRight(s) ==
    IF s = <<>> THEN <<>>
    ELSE IF s[Len(s)] = SPACE THEN TrimRight(SubSeq(s, 1, Len(s) - 1)) ELSE s

trim(s) == TrimRight(TrimLeft(s))

\* String.prototype.toLowerCase on the ASCII range
LowerChar(c) == IF c >= 65 /\ c <= 90 THEN c + 32 ELSE c

toLowerCase(s) == [i \in 1..Len(s) |-> LowerChar(s[i])]

\* String.prototype.localeCompare on lower-cased ASCII letters and spaces:
\* -1, 0 or 1 by the first differing character, a prefix coming first
RECURSIVE localeCompare(_, _)
localeCompare(a, b) ==
    IF a = <<>> /\ b = <<>> THEN 0
    ELSE IF a = <<>> THEN -1
    ELSE IF b = <<>> THEN 1
    ELSE IF Head(a) < Head(b) THEN -1
    ELSE IF Head(a) > Head(b) THEN 1
    ELSE localeCompare(Tail(a), Tail(b))

\* variant of the comparator without .toLowerCase()
byNameCaseSensitive(a, b) == localeCompare(a.name, b.name)

\* the comparator every sort of the cache builder uses:
\* (a.name || "").toLowerCase().localeCompare((b.name || "").toLowerCase())
byName(a, b) == localeCompare(toLowerCase(a.name), toLowerCase(b.name))

\* Array.prototype.sort is stable (ES2019): an element lands behind those
\* that compare smaller and behind the equal ones that precede it. Position(s,
\* less(_, _)) is the place of each element of s in the sorted array, and
\* Arrange puts the elements in their places.
Position(s, less(_, _)) ==
    [i \in 1..Len(s) |->
        1 + Cardinality({ j \in 1..Len(s) :
                            less(j, i) \/ (~less(i, j) /\ j < i) })]

Arrange(s, position) ==
    [r \in 1..Len(s) |-> s[CHOOSE i \in 1..Len(s) : position[i] = r]]

\* Array.prototype.sort with byName
SortedByName(s) ==
    With(Position(s, LAMBDA j, i : byName(s[j], s[i]) < 0),
         LAMBDA position : Arrange(s, position))

sortByName(s) == With(s, SortedByName)

\* Array.prototype.sort without comparator, on ids (string order of the ids)
SortedIds(s) ==
    With(Position(s, LAMBDA j, i : s[j] < s[i]),
         LAMBDA position : Arrange(s, position))

sortIds(s) == With(s, SortedIds)

\* ------------------------------------------------------------------------
\* lib/aps-constants.js
\* ------------------------------------------------------------------------

CACHE_MAX_AGE_MS == 2 * 60 * 60 * 1000

\* undefined / null
Absent == 0 - 1

\* ------------------------------------------------------------------------
\* lib/cache-builder.js: isCacheStale
\* ------------------------------------------------------------------------

\* !timestamp: undefined, null and 0 are all falsy
Falsy(timestamp) == timestamp = Absent \/ timestamp = 0

\* isCacheStale(timestamp) evaluated when Date.now() = now
isCacheStale(timestamp, now) ==
    Falsy(timestamp) \/ now - timestamp > CACHE_MAX_AGE_MS

\* ------------------------------------------------------------------------
\* The upstream REST API, as the fetchers see it.
\* A server of one collection is a record
\*   items    : the collection, in upstream order
\*   failAt   : the number of the page request that fails (0: none does)
\*   failKind : "status" (a non-success HTTP response) or "throw" (fetch or
\*              resp.json() rejects: network error, unparsable body)
\*   failStatus, failBody : the status and the body text of the failing
\*              response, "" also standing for a body that cannot be read
\*   total    : pagination.totalResults of the payload, or Absent
\* and answers the k-th request (offset, limit) with the slice of items.
\* ------------------------------------------------------------------------

Respond(srv, k, offset, lim) ==
    IF srv.failAt = k
    THEN [kind |-> srv.failKind, batch |-> <<>>,
          status |-> srv.failStatus, body |-> srv.failBody]
    ELSE [kind |-> "ok", batch |-> Take(Drop(srv.items, offset), lim),
          status |-> 200, body |-> ""]

CompaniesLimit == 100
UsersLimit == 100
ProjectsLimit == 200
ProjectCompaniesLimit == 100
ProjectUsersLimit == 100

\* variant of the pagination loop without the test batch.length < limit: it
\* requests pages until one comes back empty
RECURSIVE FetchAllLoopUntilEmpty(_, _, _, _, _, _)
FetchAllLoopUntilEmpty(srv, lim, what, k, offset, acc) ==
    LET resp == Respond(srv, k, offset, lim) IN
    IF resp.kind = "status"
    THEN [ok |-> FALSE, items |-> <<>>, requests |-> k,
          error |-> <<"API", what, resp.status, resp.body>>]
    ELSE IF resp.kind = "throw"
    THEN [ok |-> FALSE, items |-> <<>>, error |-> <<"fetch", what>>, requests |-> k]
    ELSE IF Len(resp.batch) = 0
    THEN [ok |-> TRUE, items |-> acc, error |-> <<>>, requests |-> k]
    ELSE FetchAllLoopUntilEmpty(srv, lim, what, k + 1, offset + lim, acc \o resp.batch)

\* The pagination loop of the three account-level fetchers
\* (CompaniesAPI.fetchAll, UsersAPI.fetchAll, ProjectsAPI.fetchAll):
\* a non-success response throws an API error, a rejected fetch propagates.
\* k is the number of the request being made, acc the items pushed so far.
RECURSIVE FetchAllLoop(_, _, _, _, _, _)
FetchAllLoop(srv, lim, what, k, offset, acc) ==
    LET resp == Respond(srv, k, offset, lim) IN
    IF resp.kind = "status"
    THEN [ok |-> FALSE, items |-> <<>>, requests |-> k,
          error |-> <<"API", what, resp.status, resp.body>>]
    ELSE IF resp.kind = "throw"
    THEN [ok |-> FALSE, items |-> <<>>, error |-> <<"fetch", what>>, requests |-> k]
    ELSE IF Len(resp.batch) = 0
    THEN [ok |-> TRUE, items |-> acc, error |-> <<>>, requests |-> k]
    ELSE IF Len(resp.batch) < lim
    THEN [ok |-> TRUE, items |-> acc \o resp.batch, error |-> <<>>, requests |-> k]
    ELSE FetchAllLoop(srv, lim, what, k + 1, offset + lim, acc \o resp.batch)

CompaniesFetchAll(srv) == FetchAllLoop(srv, CompaniesLimit, "companies", 1, 0, <<>>)

UsersFetchAll(srv) == FetchAllLoop(srv, UsersLimit, "users", 1, 0, <<>>)

ProjectsFetchAll(srv) == FetchAllLoop(srv, ProjectsLimit, "projects", 1, 0, <<>>)

\* variant of fetchProjectCompanies as its comment describes it: [] on any
\* error, a non-success response included
RECURSIVE ProjectCompaniesLoopEmptyOnError(_, _, _, _)
ProjectCompaniesLoopEmptyOnError(srv, k, offset, acc) ==
    LET resp == Respond(srv, k, offset, ProjectCompaniesLimit) IN
    IF resp.kind # "ok" THEN [items |-> <<>>, requests |-> k]
    ELSE IF Len(resp.batch) = 0 THEN [items |-> acc, requests |-> k]
    ELSE IF Len(resp.batch) < ProjectCompaniesLimit
    THEN [items |-> acc \o resp.batch, requests |-> k]
    ELSE ProjectCompaniesLoopEmptyOnError(srv, k + 1, offset + ProjectCompaniesLimit,
                                          acc \o resp.batch)

\* variant of fetchProjectCompanies with the try block inside the loop: a
\* thrown error breaks like a non-success response
RECURSIVE ProjectCompaniesLoopTryInside(_, _, _, _)
ProjectCompaniesLoopTryInside(srv, k, offset, acc) ==
    LET resp == Respond(srv, k, offset, ProjectCompaniesLimit) IN
    IF resp.kind # "ok" THEN [items |-> acc, requests |-> k]
    ELSE IF Len(resp.batch) = 0 THEN [items |-> acc, requests |-> k]
    ELSE IF Len(resp.batch) < ProjectCompaniesLimit
    THEN [items |-> acc \o resp.batch, requests |-> k]
    ELSE ProjectCompaniesLoopTryInside(srv, k + 1, offset + ProjectCompaniesLimit,
                                       acc \o resp.batch)

\* CompaniesAPI.fetchProjectCompanies: the loop runs inside one try block;
\* a non-success response breaks and returns what was collected, a thrown
\* error is caught outside the loop and returns [].
RECURSIVE ProjectCompaniesLoop(_, _, _, _)
ProjectCompaniesLoop(srv, k, offset, acc) ==
    LET resp == Respond(srv, k, offset, ProjectCompaniesLimit) IN
    IF resp.kind = "status" THEN [items |-> acc, requests |-> k]
    ELSE IF resp.kind = "throw" THEN [items |-> <<>>, requests |-> k]
    ELSE IF Len(resp.batch) = 0 THEN [items |-> acc, requests |-> k]
    ELSE IF Len(resp.batch) < ProjectCompaniesLimit
    THEN [items |-> acc \o resp.batch, requests |-> k]
    ELSE ProjectCompaniesLoop(srv, k + 1, offset + ProjectCompaniesLimit,
                              acc \o resp.batch)

fetchProjectCompanies(srv) == ProjectCompaniesLoop(srv, 1, 0, <<>>)

\* variant of fetchProjectUsers that returns [] when a request fails
RECURSIVE ProjectUsersLoopEmptyOnError(_, _, _, _)
ProjectUsersLoopEmptyOnError(srv, k, offset, acc) ==
    LET resp == Respond(srv, k, offset, ProjectUsersLimit) IN
    IF resp.kind # "ok" THEN [items |-> <<>>, requests |-> k]
    ELSE IF Len(resp.batch) = 0 THEN [items |-> acc, requests |-> k]
    ELSE LET users == acc \o resp.batch
             off   == offset + Len(resp.batch)
         IN  IF srv.total # Absent /\ off >= srv.total
             THEN [items |-> users, requests |-> k]
             ELSE IF Len(resp.batch) < ProjectUsersLimit
             THEN [items |-> users, requests |-> k]
             ELSE ProjectUsersLoopEmptyOnError(srv, k + 1, off, users)

\* UsersAPI.fetchProjectUsers: the try block is inside the loop, so both a
\* non-success response and a thrown error break and return what was
\* collected; the offset advances by the page's length and the loop also
\* stops once the offset reaches pagination.totalResults.
RECURSIVE ProjectUsersLoop(_, _, _, _)
ProjectUsersLoop(srv, k, offset, acc) ==
    LET resp == Respond(srv, k, offset, ProjectUsersLimit) IN
    IF resp.kind # "ok" THEN [items |-> acc, requests |-> k]
    ELSE IF Len(resp.batch) = 0 THEN [items |-> acc, requests |-> k]
    ELSE LET users == acc \o resp.batch
             off   == offset + Len(resp.batch)
         IN  IF srv.total # Absent /\ off >= srv.total
             THEN [items |-> users, requests |-> k]
             ELSE IF Len(resp.batch) < ProjectUsersLimit
             THEN [items |-> users, requests |-> k]
             ELSE ProjectUsersLoop(srv, k + 1, off, users)

fetchProjectUsers(srv) == ProjectUsersLoop(srv, 1, 0, <<>>)

\* ------------------------------------------------------------------------
\* Raw entities (upstream shapes). Every entity has the field id, 0 being a
\* falsy id; any other field can be absent.
\* ------------------------------------------------------------------------

\* m[key] || dflt, for a key that can be absent
Lookup(m, key, dflt) == IF key \in DOMAIN m THEN m[key] ELSE dflt

Company(id, name) == [id |-> id, name |-> name]

Project(id, name, platform) == [id |-> id, name |-> name, platform |-> platform]

\* an account user (company_id) or a project member (companyId)
User(id, name, first, last, email, company_id, companyId) ==
    [id |-> id, name |-> name, firstName |-> first, lastName |-> last,
     email |-> email, company_id |-> company_id, companyId |-> companyId]

\* a || b on ids
OrId(a, b) == IF a # 0 THEN a ELSE b

\* a || b on strings
OrText(a, b) == IF a # <<>> THEN a ELSE b

\* ------------------------------------------------------------------------
\* lib/users-api.js: displayUserName
\* ------------------------------------------------------------------------

\* displayUserName without the trim of the joined first and last name
displayUserNameJoined(user) ==
    LET name  == TrimRight(TrimLeft(Lookup(user, "name", <<>>)))
        first == TrimRight(TrimLeft(
                     IF Lookup(user, "first_name", <<>>) # <<>>
                     THEN user.first_name ELSE Lookup(user, "firstName", <<>>)))
        last  == TrimRight(TrimLeft(
                     IF Lookup(user, "last_name", <<>>) # <<>>
                     THEN user.last_name ELSE Lookup(user, "lastName", <<>>)))
    IN  IF name # <<>> THEN name ELSE first \o <<SPACE>> \o last

displayUserName(user) ==
    LET name  == trim(Lookup(user, "name", <<>>))
        first == trim(OrText(Lookup(user, "first_name", <<>>),
                             Lookup(user, "firstName", <<>>)))
        last  == trim(OrText(Lookup(user, "last_name", <<>>),
                             Lookup(user, "lastName", <<>>)))
    IN  IF name # <<>> THEN name ELSE trim(first \o <<SPACE>> \o last)

\* ------------------------------------------------------------------------
\* lib/cache-builder.js: buildCompaniesCache, step 2 (index lookups)
\* ------------------------------------------------------------------------

\* users grouped by company_id || companyId, users without one left out
UsersByCompany(users) ==
    LET cidOf(u) == OrId(Lookup(u, "company_id", 0), Lookup(u, "companyId", 0))
        keys     == { cidOf(u) : u \in Range(users) } \ {0}
    IN  [cid \in keys |-> SelectSeq(users, LAMBDA u : cidOf(u) = cid)]

\* entities indexed by id, the last one of an id winning
ById(entities) ==
    LET keys == { e.id : e \in Range(entities) } \ {0}
        last(id) == CHOOSE i \in 1..Len(entities) :
                       /\ entities[i].id = id
                       /\ \A j \in (i + 1)..Len(entities) : entities[j].id # id
    IN  [id \in keys |-> entities[last(id)]]

\* ------------------------------------------------------------------------
\* buildCompaniesCache, step 3 (the mapping loop)
\* projectIdsByCompany is an object of Sets: both keep insertion order, so it
\* is a sequence of [key, val] entries with val a duplicate-free sequence.
\* ------------------------------------------------------------------------

HasKey(assoc, key) == \E i \in 1..Len(assoc) : assoc[i].key = key

ValOf(assoc, key) ==
    IF HasKey(assoc, key)
    THEN assoc[CHOOSE i \in 1..Len(assoc) : assoc[i].key = key].val
    ELSE <<>>

\* variant: an array in place of the Set, every occurrence pushed
SetAddAgain(s, x) == s \o <<x>>

SetAdd(s, x) == IF x \in Range(s) THEN s ELSE Append(s, x)

\* (projectIdsByCompany[cid] ||= new Set()).add(pid)
AddPair(assoc, cid, pid) ==
    IF HasKey(assoc, cid)
    THEN [i \in 1..Len(assoc) |->
            IF assoc[i].key = cid
            THEN [key |-> cid, val |-> SetAdd(assoc[i].val, pid)]
            ELSE assoc[i]]
    ELSE Append(assoc, [key |-> cid, val |-> <<pid>>])

\* for (const comp of projectCompanies) if (comp.id) ...add(project.id):
\* the loop body applied to projectCompanies[lo], ..., projectCompanies[hi] in
\* this order (the range is halved to keep the evaluation shallow)
RECURSIVE AddCompaniesIn(_, _, _, _, _)
AddCompaniesIn(assoc, projectCompanies, pid, lo, hi) ==
    IF lo > hi THEN assoc
    ELSE IF lo = hi
    THEN IF projectCompanies[lo].id # 0
         THEN AddPair(assoc, projectCompanies[lo].id, pid)
         ELSE assoc
    ELSE With(AddCompaniesIn(assoc, projectCompanies, pid, lo, (lo + hi) \div 2),
              LAMBDA added : AddCompaniesIn(added, projectCompanies, pid,
                                            (lo + hi) \div 2 + 1, hi))

AddCompanies(assoc, projectCompanies, pid) ==
    With(projectCompanies,
         LAMBDA comps : AddCompaniesIn(assoc, comps, pid, 1, Len(comps)))

\* one iteration of the loop over projects; m holds both maps
MapProject(m, project, up) ==
    IF project.id = 0 THEN m
    ELSE [projectIdsByCompany |->
              AddCompanies(m.projectIdsByCompany,
                           fetchProjectCompanies(up.projectCompanies[project.id]).items,
                           project.id),
          projectUsersCache |->
              [p \in DOMAIN m.projectUsersCache \cup {project.id} |->
                  IF p = project.id
                  THEN fetchProjectUsers(up.projectUsers[project.id]).items
                  ELSE m.projectUsersCache[p]]]

EmptyMaps == [projectIdsByCompany |-> <<>>, projectUsersCache |-> <<>>]

RECURSIVE MapProjects(_, _, _)
MapProjects(m, projects, up) ==
    IF projects = <<>> THEN m
    ELSE MapProjects(MapProject(m, Head(projects), up), Tail(projects), up)

\* ------------------------------------------------------------------------
\* buildCompaniesCache, step 4 (companies payload)
\* ------------------------------------------------------------------------

Map(s, f(_)) == [i \in 1..Len(s) |-> f(s[i])]

\* { name, uuid, email } of the company-rooted tree
CompanyMemberRecord(u) ==
    [name |-> displayUserName(u), uuid |-> u.id, email |-> Lookup(u, "email", "")]

\* userRecords of one company
UserRecords(comp, usersByCompany) ==
    sortByName(Map(SelectSeq(Lookup(usersByCompany, comp.id, <<>>),
                             LAMBDA u : u.id # 0),
                   CompanyMemberRecord))

\* variant: the whole roster embedded, without the company filter
EmbeddedMembersWholeRoster(comp, pid, projectUsersCache) ==
    sortByName(Map(SelectSeq(Lookup(projectUsersCache, pid, <<>>),
                             LAMBDA pu : pu.id # 0),
                   CompanyMemberRecord))

\* the members embedded under company comp for project pid
EmbeddedMembers(comp, pid, projectUsersCache) ==
    sortByName(Map(SelectSeq(Lookup(projectUsersCache, pid, <<>>),
                             LAMBDA pu : /\ Lookup(pu, "companyId", 0) = comp.id
                                         /\ pu.id # 0),
                   CompanyMemberRecord))

NoProject == Project(0, <<>>, "")

\* variant of projectRecords without the sort of the ids: the records are
\* mapped in the order of the Set and sorted by name
ProjectRecordsInSetOrder(comp, m, projectsById) ==
    LET record(pid) ==
            LET project == Lookup(projectsById, pid, NoProject) IN
            [name     |-> Lookup(project, "name", <<>>),
             uuid     |-> pid,
             platform |-> Lookup(project, "platform", ""),
             members  |-> EmbeddedMembers(comp, pid, m.projectUsersCache)]
    IN  sortByName(Map(ValOf(m.projectIdsByCompany, comp.id), record))

\* projectRecords of one company: ids sorted, mapped, re-sorted by name
ProjectRecords(comp, m, projectsById) ==
    LET companyProjectIds == sortIds(ValOf(m.projectIdsByCompany, comp.id))
        record(pid) ==
            LET project == Lookup(projectsById, pid, NoProject) IN
            [name     |-> Lookup(project, "name", <<>>),
             uuid     |-> pid,
             platform |-> Lookup(project, "platform", ""),
             members  |-> EmbeddedMembers(comp, pid, m.projectUsersCache)]
    IN  sortByName(Map(companyProjectIds, record))

\* variant: the users of a company listed only when it has projects
CompanyEntryUsersIfProjects(comp, m, usersByCompany, projectsById) ==
    [name     |-> Lookup(comp, "name", <<>>),
     uuid     |-> comp.id,
     projects |-> ProjectRecords(comp, m, projectsById),
     users    |-> IF ProjectRecords(comp, m, projectsById) = <<>> THEN <<>>
                  ELSE UserRecords(comp, usersByCompany)]

CompanyEntry(comp, m, usersByCompany, projectsById) ==
    [name     |-> Lookup(comp, "name", <<>>),
     uuid     |-> comp.id,
     projects |-> ProjectRecords(comp, m, projectsById),
     users    |-> UserRecords(comp, usersByCompany)]

\* variant: every fetched company gets an entry, with or without an id
AssembleCompaniesUnfiltered(companies, users, projects, m) ==
    LET usersByCompany == UsersByCompany(users)
        projectsById   == ById(projects)
        entry(comp)    == CompanyEntry(comp, m, usersByCompany, projectsById)
    IN  sortByName(Map(companies, entry))

AssembleCompanies(companies, users, projects, m) ==
    LET usersByCompany == UsersByCompany(users)
        projectsById   == ById(projects)
        entry(comp)    == CompanyEntry(comp, m, usersByCompany, projectsById)
    IN  sortByName(Map(SelectSeq(companies, LAMBDA comp : comp.id # 0), entry))

\* ------------------------------------------------------------------------
\* buildCompaniesCache, step 5 (projects payload)
\* ------------------------------------------------------------------------

\* { name, uuid, email, companyId } of the project-rooted tree
\* variant: the members of the project-rooted tree without their company
ProjectMemberRecordWithoutCompany(pu) ==
    [name |-> displayUserName(pu), uuid |-> pu.id, email |-> Lookup(pu, "email", "")]

ProjectMemberRecord(pu) ==
    [name |-> displayUserName(pu), uuid |-> pu.id, email |-> Lookup(pu, "email", ""),
     companyId |-> Lookup(pu, "companyId", 0)]

ProjectMembers(project, projectUsersCache) ==
    sortByName(Map(SelectSeq(Lookup(projectUsersCache, project.id, <<>>),
                             LAMBDA pu : pu.id # 0),
                   ProjectMemberRecord))

\* variant: the reverse lookup testing the first project of each set only
CompanyIdsForProjectFirstOnly(project, projectIdsByCompany) ==
    Map(SelectSeq(projectIdsByCompany, LAMBDA e : project.id = e.val[1]),
        LAMBDA e : e.key)

\* the reverse lookup: the keys of projectIdsByCompany, in insertion order,
\* whose set has the project's id
CompanyIdsForProject(project, projectIdsByCompany) ==
    Map(SelectSeq(projectIdsByCompany, LAMBDA e : project.id \in Range(e.val)),
        LAMBDA e : e.key)

\* variant: the ids that resolve to no fetched company are left out
ProjectCompaniesResolved(project, projectIdsByCompany, companiesById) ==
    LET record(cid) ==
            [name |-> IF "name" \in DOMAIN companiesById[cid]
                      THEN companiesById[cid].name ELSE <<>>,
             uuid |-> cid]
        cids == SelectSeq(projectIdsByCompany,
                          LAMBDA e : project.id \in { e.val[k] : k \in 1..Len(e.val) }
                                     /\ e.key \in DOMAIN companiesById)
    IN  sortByName([k \in 1..Len(cids) |-> record(cids[k].key)])

ProjectCompanies(project, projectIdsByCompany, companiesById) ==
    LET record(cid) ==
            [name |-> IF cid \in DOMAIN companiesById
                      THEN Lookup(companiesById[cid], "name", <<>>) ELSE <<>>,
             uuid |-> cid]
    IN  sortByName(Map(CompanyIdsForProject(project, projectIdsByCompany), record))

ProjectEntry(project, m, companiesById) ==
    [name      |-> Lookup(project, "name", <<>>),
     uuid      |-> project.id,
     platform  |-> Lookup(project, "platform", ""),
     members   |-> ProjectMembers(project, m.projectUsersCache),
     companies |-> ProjectCompanies(project, m.projectIdsByCompany, companiesById)]

AssembleProjects(companies, projects, m) ==
    LET companiesById  == ById(companies)
        entry(project) == ProjectEntry(project, m, companiesById)
    IN  sortByName(Map(SelectSeq(projects, LAMBDA project : project.id # 0), entry))

\* ------------------------------------------------------------------------
\* buildCompaniesCache as a whole, against the upstream `up`:
\*   up.companies, up.users, up.projects   servers of the three collections
\*   up.projectCompanies[pid], up.projectUsers[pid]   servers per project
\* The three account-level fetches run in order and the first failure
\* rejects the build.
\* ------------------------------------------------------------------------

Rejected(error) ==
    [ok |-> FALSE, error |-> error, companiesCache |-> <<>>, projectsCache |-> <<>>]

buildCompaniesCache(up) ==
    LET companies == CompaniesFetchAll(up.companies)
        users     == UsersFetchAll(up.users)
        projects  == ProjectsFetchAll(up.projects)
    IN  IF ~companies.ok THEN Rejected(companies.error)
        ELSE IF ~users.ok THEN Rejected(users.error)
        ELSE IF ~projects.ok THEN Rejected(projects.error)
        ELSE LET m == MapProjects(EmptyMaps, projects.items, up) IN
             [ok |-> TRUE, error |-> <<>>,
              companiesCache |->
                  AssembleCompanies(companies.items, users.items, projects.items, m),
              projectsCache |->
                  AssembleProjects(companies.items, projects.items, m)]

\* ------------------------------------------------------------------------
\* State
\* ------------------------------------------------------------------------

VARIABLES
    up,             \* the upstream API: the servers the fetchers talk to
    now,            \* Date.now()
    cacheBuilding,  \* background.js: let cacheBuilding
    calls,          \* the triggers and invocations of triggerCacheBuild
    lastBuilt,      \* history: what the build that wrote last had built
    local,          \* chrome.storage.local
    session,        \* chrome.storage.session
    tabs,           \* the content scripts, each running loadCompaniesCache
    prefetch,       \* the onChanged listener's invocation of get2LeggedToken
    fallback,       \* content.js: the on-demand path of renderProjectsList
    phase,          \* the functions on their own: "input", then "built" or "evaluated"
    out,            \* the functions on their own: buildCompaniesCache(up)
    timestamp,      \* the functions on their own: the argument of isCacheStale
    stale           \* the functions on their own: isCacheStale(timestamp) at now

vars == <<up, now, cacheBuilding, calls, lastBuilt, local, session, tabs,
          prefetch, fallback, phase, out, timestamp, stale>>

\* the variables of the two functions applied on their own
pure == <<phase, out, timestamp, stale>>

\* the variables of the service worker and the content scripts, but up and now
worker == <<cacheBuilding, calls, lastBuilt, local, session, tabs, prefetch, fallback>>

\* a server that serves its collection faithfully and never fails
Srv(items) ==
    [items |-> items, failAt |-> 0, failKind |-> "status", failStatus |-> 500,
     failBody |-> "", total |-> Absent]

\* a server whose k-th page request fails
FailingSrv(items, k, kind) ==
    [items |-> items, failAt |-> k, failKind |-> kind, failStatus |-> 500,
     failBody |-> "", total |-> Absent]

\* ------------------------------------------------------------------------
\* Bounds of the service-worker model
\* ------------------------------------------------------------------------

\* triggers (BUILD_CACHE messages and alarm firings) in flight at a time
MaxCalls == 2

\* content scripts, each loading once
NumTabs == 1

\* advances of the clock in one behaviour
MaxTicks == 1

\* clicks that expand a projects count while the pre-built cache is missing
MaxRenders == 2

Renders == 1..MaxRenders

Calls == 1..MaxCalls

Tabs == 1..NumTabs

\* the clock starts late enough for a cache to be older than the maximum age
StartTime == 3 * CACHE_MAX_AGE_MS

\* the clock advances by more than the maximum cache age (and so by more
\* than a token's lifetime)
TickSteps == {CACHE_MAX_AGE_MS + 1}

\* expires_in of the token endpoint's response, in milliseconds
TokenLifetimeMs == 60 * 60 * 1000

\* ------------------------------------------------------------------------
\* chrome.storage: a missing key is Undefined, a stored value v is <<v>>
\* ------------------------------------------------------------------------

Undefined == <<>>

Stored(v) == <<v>>

\* ------------------------------------------------------------------------
\* The upstream states the service worker can meet. The per-project servers
\* are defined for every project id an upstream state can list.
\* ------------------------------------------------------------------------

ProjectIds == {1, 2}

Acme == <<65, 99, 109, 101>>

Bolt == <<98, 111, 108, 116>>

Jo == <<74, 111>>

Tower == <<84, 111, 119, 101, 114>>

Yard == <<121, 97, 114, 100>>

\* the end-to-end scenario of the README: one company, one user, one project
UpOne ==
    [companies |-> Srv(<<Company(1, Acme)>>),
     users     |-> Srv(<<User(1, Jo, <<>>, <<>>, "", 1, 0)>>),
     projects  |-> Srv(<<Project(1, Tower, "")>>),
     projectCompanies |-> [p \in ProjectIds |->
         IF p = 1 THEN Srv(<<Company(1, <<>>)>>) ELSE Srv(<<>>)],
     projectUsers |-> [p \in ProjectIds |->
         IF p = 1 THEN Srv(<<User(1, Jo, <<>>, <<>>, "", 0, 1)>>) ELSE Srv(<<>>)]]

\* the account after a second company and a second project were added
UpTwo ==
    [companies |-> Srv(<<Company(2, Bolt), Company(1, Acme)>>),
     users     |-> Srv(<<User(1, Jo, <<>>, <<>>, "", 1, 0)>>),
     projects  |-> Srv(<<Project(2, Yard, "acc"), Project(1, Tower, "")>>),
     projectCompanies |-> [p \in ProjectIds |->
         IF p = 1 THEN Srv(<<Company(1, <<>>), Company(2, <<>>)>>)
         ELSE Srv(<<Company(2, <<>>)>>)],
     projectUsers |-> [p \in ProjectIds |->
         Srv(<<User(1, Jo, <<>>, <<>>, "", 0, 1)>>)]]

Scenarios == {UpOne, UpTwo}

\* what a page request of an account-level fetcher can meet: the server as
\* it is, or the server answering its first request with a failure
Outages == {"none", "status", "throw"}

Meets(srv, outage) ==
    IF outage = "none" THEN srv ELSE FailingSrv(srv.items, 1, outage)

\* ------------------------------------------------------------------------
\* background.js: one trigger and the invocation of triggerCacheBuild it
\* leads to. pc is the await the invocation is suspended at:
\*   idle            the trigger has not happened
\*   requested       a BUILD_CACHE message is on its way to the worker
\*   alarm           the alarm listener awaits its storage read
\*   skipped         the alarm listener returned without building
\*   ensureToken     awaiting chrome.storage.session.get (ensureToken)
\*   get2LeggedToken awaiting chrome.storage.local.get (get2LeggedToken)
\*   tokenRequest    awaiting the token endpoint
\*   tokenStore      awaiting chrome.storage.session.set
\*   accountId       awaiting chrome.storage.session.get(["accAccountId"])
\*   companies, users, projects   awaiting the account-level fetcher
\*   mapping         awaiting the two per-project fetchers of project i
\*   store           awaiting chrome.storage.local.set
\*   stored          the write is done, the continuation has not run yet
\*   resolved, rejected   the promise of triggerCacheBuild has settled
\* startCache is history: the persisted cache record when the build started.
\* listener: whether a page with a CACHE_PROGRESS listener is open while the
\* build sends its progress messages: the popup, for a build started from
\* its button; none for a build started by the alarm.
\* requests and fetched are history: the fetchers the build has called, in
\* the order of the calls, and what they returned to it; tokens is history:
\* the token argument of each of these calls.
\* ------------------------------------------------------------------------

NoBuilt == [companiesCache |-> <<>>, projectsCache |-> <<>>]

\* the persisted cache record: the four keys a build writes
CacheRecord(store) ==
    [companiesCache          |-> store.companiesCache,
     companiesCacheTimestamp |-> store.companiesCacheTimestamp,
     projectsCache           |-> store.projectsCache,
     projectsCacheTimestamp  |-> store.projectsCacheTimestamp]

\* a progress message: the step and, for the message of one project in the
\* mapping loop, "[n/of]"
Progress(step) == [step |-> step, n |-> 0, of |-> 0]

ProjectProgress(projects, j) == [step |-> "mapping", n |-> j, of |-> Len(projects)]

\* history: a call of a fetcher (pid 0: account level), and what it returned
Request(fetcher, pid) == [fetcher |-> fetcher, pid |-> pid]

Fetched(fetcher, pid, items) == [fetcher |-> fetcher, pid |-> pid, items |-> items]

IdleCall ==
    [pc |-> "idle", alarmData |-> Undefined,
     token |-> 0, newToken |-> 0, newExpiresAt |-> 0, cfgAccountId |-> 0,
     accountId |-> 0,
     companies |-> <<>>, users |-> <<>>, projects |-> <<>>,
     i |-> 0, m |-> EmptyMaps, built |-> NoBuilt, storeTime |-> Absent,
     result |-> "none", progress |-> <<>>, startCache |-> Undefined,
     requests |-> <<>>, fetched |-> <<>>, listener |-> FALSE, tokens |-> <<>>]

InProgressError == "Cache build already in progress."

CredentialsError == "APS credentials not configured. Right-click the extension icon > Options to set them up."

TokenError == "Token request failed"

NoAccountError == "No account ID configured."

StorageError == "storage write rejected"

FetchError(error) == IF error[1] = "API" THEN "API error: " \o error[2]
                     ELSE "fetch failed: " \o error[2]

\* the states between cacheBuilding = true and the finally block
BuildingPcs ==
    {"ensureToken", "get2LeggedToken", "tokenRequest", "tokenStore", "accountId",
     "companies", "users", "projects", "mapping", "store", "stored"}

Building(i) == calls[i].pc \in BuildingPcs

\* a record is free for a new trigger before its first use and again once
\* its invocation has settled; a trigger takes the first free record
FreePcs == {"idle", "skipped", "resolved", "rejected"}

FirstIdle(i) ==
    /\ calls[i].pc \in FreePcs
    /\ \A j \in Calls : j < i => calls[j].pc \notin FreePcs

SetCall(i, c) == calls' = [calls EXCEPT ![i] = c]

\* a settled invocation: its local variables are gone; the record keeps the
\* outcome (the error, or the caches returned) and the progress messages sent
Settled(c, pc, result) ==
    [IdleCall EXCEPT !.pc = pc, !.result = result,
                     !.progress = c.progress,
                     !.requests = c.requests,
                     !.listener = IF pc = "resolved" THEN c.listener ELSE FALSE,
                     !.fetched = IF pc = "resolved" THEN c.fetched ELSE <<>>,
                     !.built = IF pc = "resolved" THEN c.built ELSE NoBuilt]

\* ---- sendProgress, lines 100-104 ----------------------------------------

NoListenerError == "Could not establish connection. Receiving end does not exist."

\* chrome.runtime.sendMessage: the promise rejects when no listener exists
SendOutcome(c) == IF c.listener THEN "resolved" ELSE "rejected"

\* variant: the send awaited without a catch, its rejection thrown into
\* the build
Thrown(c) ==
    [IdleCall EXCEPT !.pc = "rejected", !.result = NoListenerError,
                     !.progress = c.progress, !.requests = c.requests,
                     !.listener = c.listener]

\* .catch(() => {}): the rejection is handled, the invocation goes on
Caught(c) == c

\* the message is sent; the invocation does not await the outcome
sendProgress(c, msg) ==
    LET sent == [c EXCEPT !.progress = Append(@, msg)] IN
    IF SendOutcome(sent) = "rejected" THEN Caught(sent) ELSE sent

\* ---- triggerCacheBuild, lines 110-112 ----------------------------------

\* variant: triggerCacheBuild without its guard
GuardNeverRejects == FALSE

\* if (cacheBuilding) throw ...: the guard
GuardRejects == cacheBuilding

\* variant: the guard moved inside the try block, so that the finally block
\* clears the flag of the build that is running
FlagResetByFinally == FALSE

\* the flag after a rejected call: the throw is outside the try block, so the
\* finally block does not run
FlagAfterRejection == cacheBuilding

\* entering triggerCacheBuild from call record c: the new flag and record
Enter(i, c) ==
    IF GuardRejects
    THEN /\ cacheBuilding' = FlagAfterRejection
         /\ SetCall(i, Settled(c, "rejected", InProgressError))
    ELSE /\ cacheBuilding' = TRUE
         /\ SetCall(i, [c EXCEPT !.pc = "ensureToken",
                                 !.startCache = Stored(CacheRecord(local))])

\* the finally block
FlagAfterBuild == FALSE

\* variant: the flag reset at the end of the try block instead of in finally
FailWithoutFinally(i, error) ==
    /\ UNCHANGED cacheBuilding
    /\ SetCall(i, Settled(calls[i], "rejected", error))

\* variant: a failed build starts over instead of rejecting
FailRestarting(i, error) ==
    /\ UNCHANGED cacheBuilding
    /\ SetCall(i, [calls[i] EXCEPT !.pc = "ensureToken"])

\* a throw inside the try block: finally resets the flag, the promise rejects
Fail(i, error) ==
    /\ cacheBuilding' = FlagAfterBuild
    /\ SetCall(i, Settled(calls[i], "rejected", error))

\* ---- triggers -----------------------------------------------------------

\* popup.js: the Build Cache button sends a BUILD_CACHE message
PopupClick(i) ==
    /\ FirstIdle(i)
    /\ SetCall(i, [IdleCall EXCEPT !.pc = "requested", !.listener = TRUE])
    /\ UNCHANGED <<up, now, cacheBuilding, lastBuilt, local, session, tabs, prefetch, fallback, pure>>

\* onMessage, BUILD_CACHE: the handler calls triggerCacheBuild
HandleBuildCache(i) ==
    /\ calls[i].pc = "requested"
    /\ Enter(i, calls[i])
    /\ UNCHANGED <<up, now, lastBuilt, local, session, tabs, prefetch, fallback, pure>>

CACHE_ALARM_NAME == "acc-enhancer-cache-refresh"

\* the alarms that can reach the listener: the refresh alarm, and any other
AlarmNames == {CACHE_ALARM_NAME, "other"}

\* onAlarm: the listener returns for another alarm, and otherwise reads the
\* credentials and the timestamp
AlarmFire(i) ==
    /\ FirstIdle(i)
    /\ \E name \in AlarmNames :
          IF name # CACHE_ALARM_NAME
          THEN SetCall(i, Settled(IdleCall, "skipped", "none"))
          ELSE SetCall(i, [IdleCall EXCEPT
                   !.pc = "alarm",
                   !.alarmData = Stored([apsClientId |-> local.apsClientId,
                                         apsClientSecret |-> local.apsClientSecret,
                                         companiesCacheTimestamp |->
                                             local.companiesCacheTimestamp])])
    /\ UNCHANGED <<up, now, cacheBuilding, lastBuilt, local, session, tabs, prefetch, fallback, pure>>

\* variant: the staleness test of the listener inverted
AlarmDecideWhenFresh(i) ==
    /\ calls[i].pc = "alarm"
    /\ LET data == calls[i].alarmData[1] IN
       IF data.apsClientId = "" \/ data.apsClientSecret = ""
          \/ isCacheStale(data.companiesCacheTimestamp, now)
       THEN /\ SetCall(i, Settled(calls[i], "skipped", "none"))
            /\ UNCHANGED cacheBuilding
       ELSE Enter(i, calls[i])
    /\ UNCHANGED <<up, now, lastBuilt, local, session, tabs, prefetch, fallback, pure>>

\* variant: the listener rebuilds whenever the credentials are configured
AlarmDecideIgnoringAge(i) ==
    /\ calls[i].pc = "alarm"
    /\ LET data == calls[i].alarmData[1] IN
       IF data.apsClientId = "" \/ data.apsClientSecret = ""
       THEN /\ SetCall(i, Settled(calls[i], "skipped", "none"))
            /\ UNCHANGED cacheBuilding
       ELSE Enter(i, calls[i])
    /\ UNCHANGED <<up, now, lastBuilt, local, session, tabs, prefetch, fallback, pure>>

\* onAlarm, the callback of the read: return unless configured and stale
AlarmDecide(i) ==
    /\ calls[i].pc = "alarm"
    /\ LET data == calls[i].alarmData[1] IN
       IF data.apsClientId = "" \/ data.apsClientSecret = ""
          \/ ~isCacheStale(data.companiesCacheTimestamp, now)
       THEN /\ SetCall(i, Settled(calls[i], "skipped", "none"))
            /\ UNCHANGED cacheBuilding
       ELSE Enter(i, calls[i])
    /\ UNCHANGED <<up, now, lastBuilt, local, session, tabs, prefetch, fallback, pure>>

\* ---- ensureToken and get2LeggedToken -------------------------------------

TokenMarginMs == 5 * 60 * 1000

\* variant: the stored token is returned until it has expired
NeedsTokenWithoutMargin(data) ==
    \/ data.accBearerToken = 0
    \/ data.tokenExpiresAt = 0
    \/ now > data.tokenExpiresAt

\* ensureToken, lines 85-89: must a new token be obtained?
NeedsToken(data) ==
    \/ data.accBearerToken = 0
    \/ data.tokenExpiresAt = 0
    \/ now > data.tokenExpiresAt - TokenMarginMs

EnsureToken(i) ==
    /\ calls[i].pc = "ensureToken"
    /\ IF NeedsToken(session)
       THEN SetCall(i, [calls[i] EXCEPT !.pc = "get2LeggedToken"])
       ELSE SetCall(i, [calls[i] EXCEPT !.pc = "accountId",
                                        !.token = session.accBearerToken])
    /\ UNCHANGED <<up, now, cacheBuilding, lastBuilt, local, session, tabs, prefetch, fallback, pure>>

\* get2LeggedToken, lines 27-37: the credentials must be configured
Get2LeggedToken(i) ==
    /\ calls[i].pc = "get2LeggedToken"
    /\ IF local.apsClientId = "" \/ local.apsClientSecret = ""
       THEN Fail(i, CredentialsError)
       ELSE /\ SetCall(i, [calls[i] EXCEPT !.pc = "tokenRequest",
                                           !.cfgAccountId = local.apsAccountId])
            /\ UNCHANGED cacheBuilding
    /\ UNCHANGED <<up, now, lastBuilt, local, session, tabs, prefetch, fallback, pure>>

\* get2LeggedToken, lines 44-60: the token endpoint answers
TokenRequest(i) ==
    /\ calls[i].pc = "tokenRequest"
    /\ \E ok \in BOOLEAN :
          IF ok
          THEN /\ SetCall(i, [calls[i] EXCEPT
                      !.pc = "tokenStore",
                      !.newToken = now + TokenLifetimeMs,
                      !.newExpiresAt = now + TokenLifetimeMs])
               /\ UNCHANGED cacheBuilding
          ELSE Fail(i, TokenError)
    /\ UNCHANGED <<up, now, lastBuilt, local, session, tabs, prefetch, fallback, pure>>

\* get2LeggedToken, lines 62-73: token, expiry and account id in one write
TokenStore(i) ==
    /\ calls[i].pc = "tokenStore"
    /\ session' = [accBearerToken |-> calls[i].newToken,
                   tokenExpiresAt |-> calls[i].newExpiresAt,
                   accAccountId   |-> calls[i].cfgAccountId]
    /\ SetCall(i, [calls[i] EXCEPT !.pc = "accountId",
                                   !.token = calls[i].newToken])
    /\ UNCHANGED <<up, now, cacheBuilding, lastBuilt, local, tabs, prefetch, fallback, pure>>

\* variant: triggerCacheBuild without the test of line 117
AccountIdUnchecked(i) ==
    /\ calls[i].pc = "accountId"
    /\ SetCall(i, sendProgress([calls[i] EXCEPT
                      !.pc = "companies",
                      !.accountId = session.accAccountId,
                      !.requests = Append(@, Request("companies", 0)),
                      !.tokens = Append(@, calls[i].token)],
                  Progress("companies")))
    /\ UNCHANGED <<up, now, cacheBuilding, lastBuilt, local, session, tabs, prefetch, fallback, pure>>

\* triggerCacheBuild, lines 116-117, and the start of buildCompaniesCache
AccountId(i) ==
    /\ calls[i].pc = "accountId"
    /\ IF session.accAccountId = 0
       THEN Fail(i, NoAccountError)
       ELSE /\ SetCall(i, sendProgress([calls[i] EXCEPT
                                 !.pc = "companies",
                                 !.accountId = session.accAccountId,
                                 !.requests = Append(@, Request("companies", 0)),
                                 !.tokens = Append(@, calls[i].token)],
                             Progress("companies")))
            /\ UNCHANGED cacheBuilding
    /\ UNCHANGED <<up, now, lastBuilt, local, session, tabs, prefetch, fallback, pure>>

\* ---- buildCompaniesCache, one await at a time ----------------------------

\* the index of the first project at or after j that has an id (the loop
\* skips the others without awaiting), or Len + 1
RECURSIVE NextIdx(_, _)
NextIdx(projects, j) ==
    IF j > Len(projects) THEN j
    ELSE IF projects[j].id # 0 THEN j
    ELSE NextIdx(projects, j + 1)

\* variant: the companies assembled are appended to the stored companies
\* cache instead of replacing it
AssembledOntoStored(c) ==
    [c EXCEPT
       !.pc = "store",
       !.built = [companiesCache |->
                      (IF local.companiesCache = Undefined THEN <<>>
                       ELSE local.companiesCache[1])
                      \o AssembleCompanies(c.companies, c.users, c.projects, c.m),
                  projectsCache |->
                      AssembleProjects(c.companies, c.projects, c.m)],
       !.storeTime = now,
       !.progress = @ \o <<Progress("assembling"), Progress("assembling")>>]

\* variant: "done" sent when the caches are assembled, before the write
AssembledAnnouncingDone(c) ==
    [c EXCEPT
       !.pc = "store",
       !.built = [companiesCache |->
                      AssembleCompanies(c.companies, c.users, c.projects, c.m),
                  projectsCache |->
                      AssembleProjects(c.companies, c.projects, c.m)],
       !.storeTime = now,
       !.progress = @ \o <<Progress("assembling"), Progress("assembling"),
                           Progress("done")>>]

\* steps 4 and 5 and lines 125-131: the caches are assembled, Date.now() is
\* read and the storage write is issued
Assembled(c) ==
    sendProgress(sendProgress(
        [c EXCEPT
           !.pc = "store",
           !.built = [companiesCache |->
                          AssembleCompanies(c.companies, c.users, c.projects, c.m),
                      projectsCache |->
                          AssembleProjects(c.companies, c.projects, c.m)],
           !.storeTime = now],
        Progress("assembling")), Progress("assembling"))

\* the loop of step 3 arrives at index j: the next fetch, or the assembly
LoopAt(c, j) ==
    IF j <= Len(c.projects)
    THEN sendProgress([c EXCEPT !.pc = "mapping", !.i = j],
                      ProjectProgress(c.projects, j))
    ELSE Assembled([c EXCEPT !.i = j])

FetchCompanies(i) ==
    /\ calls[i].pc = "companies"
    /\ \E outage \in Outages :
       LET r == CompaniesFetchAll(Meets(up.companies, outage)) IN
       IF r.ok
       THEN /\ SetCall(i, sendProgress(sendProgress(
                   [calls[i] EXCEPT
                      !.pc = "users", !.companies = r.items,
                      !.requests = Append(@, Request("users", 0)),
                      !.tokens = Append(@, calls[i].token),
                      !.fetched = Append(@, Fetched("companies", 0, r.items))],
                   Progress("companies")), Progress("users")))
            /\ UNCHANGED cacheBuilding
       ELSE Fail(i, FetchError(r.error))
    /\ UNCHANGED <<up, now, lastBuilt, local, session, tabs, prefetch, fallback, pure>>

FetchUsers(i) ==
    /\ calls[i].pc = "users"
    /\ \E outage \in Outages :
       LET r == UsersFetchAll(Meets(up.users, outage)) IN
       IF r.ok
       THEN /\ SetCall(i, sendProgress(sendProgress(
                   [calls[i] EXCEPT
                      !.pc = "projects", !.users = r.items,
                      !.requests = Append(@, Request("projects", 0)),
                      !.tokens = Append(@, calls[i].token),
                      !.fetched = Append(@, Fetched("users", 0, r.items))],
                   Progress("users")), Progress("projects")))
            /\ UNCHANGED cacheBuilding
       ELSE Fail(i, FetchError(r.error))
    /\ UNCHANGED <<up, now, lastBuilt, local, session, tabs, prefetch, fallback, pure>>

FetchProjects(i) ==
    /\ calls[i].pc = "projects"
    /\ \E outage \in Outages :
       LET r == ProjectsFetchAll(Meets(up.projects, outage)) IN
       IF r.ok
       THEN /\ SetCall(i, LoopAt(sendProgress(sendProgress(
                   [calls[i] EXCEPT
                      !.projects = r.items,
                      !.fetched = Append(@, Fetched("projects", 0, r.items))],
                   Progress("projects")), Progress("mapping")),
                   NextIdx(r.items, 1)))
            /\ UNCHANGED cacheBuilding
       ELSE Fail(i, FetchError(r.error))
    /\ UNCHANGED <<up, now, lastBuilt, local, session, tabs, prefetch, fallback, pure>>

\* the invocation after the iteration for project c.projects[c.i], which
\* left the maps m
Mapped(c, m) ==
    LET pid == c.projects[c.i].id IN
    [c EXCEPT
       !.m = m,
       !.requests = @ \o <<Request("projectCompanies", pid), Request("projectUsers", pid)>>,
       !.tokens = @ \o <<c.token, c.token>>,
       !.fetched = @ \o <<Fetched("projectCompanies", pid,
                                  fetchProjectCompanies(up.projectCompanies[pid]).items),
                          Fetched("projectUsers", pid, m.projectUsersCache[pid])>>]

\* one iteration of the mapping loop: both per-project fetchers have answered
MapStep(i) ==
    /\ calls[i].pc = "mapping"
    /\ LET c == calls[i] IN
       SetCall(i, With(MapProject(c.m, c.projects[c.i], up),
                       LAMBDA m : With(Mapped(c, m),
                                       LAMBDA d : LoopAt(d, NextIdx(d.projects, d.i + 1)))))
    /\ UNCHANGED <<up, now, cacheBuilding, lastBuilt, local, session, tabs, prefetch, fallback, pure>>

\* ---- triggerCacheBuild, lines 125-146 -----------------------------------

\* variant: only the companies cache and its timestamp are written
CacheItemsCompaniesOnly(built, time) ==
    [companiesCache          |-> Stored(built.companiesCache),
     companiesCacheTimestamp |-> time]

\* the object passed to chrome.storage.local.set
CacheItems(built, time) ==
    [companiesCache          |-> Stored(built.companiesCache),
     companiesCacheTimestamp |-> time,
     projectsCache           |-> Stored(built.projectsCache),
     projectsCacheTimestamp  |-> time]

\* chrome.storage.local.set(items): the keys of items replaced in one write
LocalSet(store, items) ==
    [k \in DOMAIN store |-> IF k \in DOMAIN items THEN items[k] ELSE store[k]]

\* the write succeeds
StoreWrite(i) ==
    /\ calls[i].pc = "store"
    /\ local' = LocalSet(local, CacheItems(calls[i].built, calls[i].storeTime))
    /\ lastBuilt' = Stored(calls[i].built)
    /\ SetCall(i, [calls[i] EXCEPT !.pc = "stored"])
    /\ UNCHANGED <<up, now, cacheBuilding, session, tabs, prefetch, fallback, pure>>

\* variant: the two caches written one after the other, the second write
\* being the one that is rejected
StoreRejectAfterPartialWrite(i) ==
    /\ calls[i].pc = "store"
    /\ local' = [local EXCEPT
                    !.companiesCache = Stored(calls[i].built.companiesCache),
                    !.companiesCacheTimestamp = calls[i].storeTime]
    /\ Fail(i, StorageError)
    /\ UNCHANGED <<up, now, lastBuilt, session, tabs, prefetch, fallback, pure>>

\* the write is rejected (quota exceeded): nothing is stored
StoreReject(i) ==
    /\ calls[i].pc = "store"
    /\ Fail(i, StorageError)
    /\ UNCHANGED <<up, now, lastBuilt, local, session, tabs, prefetch, fallback, pure>>

\* lines 133-145: the final progress message, the return and the finally block
Finish(i) ==
    /\ calls[i].pc = "stored"
    /\ cacheBuilding' = FlagAfterBuild
    /\ SetCall(i, Settled(sendProgress(calls[i], Progress("done")),
                           "resolved", "resolved"))
    /\ UNCHANGED <<up, now, lastBuilt, local, session, tabs, prefetch, fallback, pure>>

\* ---- content.js: loadCompaniesCache --------------------------------------

\* the response of the GET_CACHE and GET_PROJECTS_CACHE handlers
CacheResponse(cache, ts) == [cache |-> cache, stale |-> isCacheStale(ts, now)]

\* variant: only a missing cache sends a BUILD_CACHE message, a stale one
\* is loaded without a rebuild
TabGetCacheBuildIfMissing(t) ==
    /\ tabs[t].pc = "start"
    /\ tabs' = [tabs EXCEPT ![t].pc = "companies",
                            ![t].companiesCache =
                                IF local.companiesCache # Undefined
                                THEN local.companiesCache ELSE @,
                            ![t].sibling = local.projectsCache]
    /\ IF local.companiesCache = Undefined
       THEN \E i \in Calls :
               /\ calls[i].pc \in FreePcs
               /\ \A j \in Calls : j < i => calls[j].pc \notin FreePcs
               /\ calls' = [calls EXCEPT ![i] = [IdleCall EXCEPT !.pc = "requested"]]
       ELSE UNCHANGED calls
    /\ UNCHANGED <<up, now, cacheBuilding, lastBuilt, local, session, prefetch, fallback, pure>>

\* lines 16-32: the companies cache is read; a missing or stale cache sends a
\* BUILD_CACHE message, whose outcome is only logged
TabGetCache(t) ==
    /\ tabs[t].pc = "start"
    /\ LET r == CacheResponse(local.companiesCache, local.companiesCacheTimestamp)
           loaded == [tabs EXCEPT ![t].pc = "companies",
                                  ![t].companiesCache =
                                      IF r.cache # Undefined THEN r.cache ELSE @,
                                  ![t].sibling = local.projectsCache]
       IN  /\ tabs' = loaded
           /\ IF r.cache = Undefined \/ r.stale
              THEN \E i \in Calls :
                      /\ FirstIdle(i)
                      /\ SetCall(i, [IdleCall EXCEPT !.pc = "requested"])
              ELSE UNCHANGED calls
    /\ UNCHANGED <<up, now, cacheBuilding, lastBuilt, local, session, prefetch, fallback, pure>>

\* lines 38-46: the projects cache is read with a second message
TabGetProjectsCache(t) ==
    /\ tabs[t].pc = "companies"
    /\ LET r == CacheResponse(local.projectsCache, local.projectsCacheTimestamp) IN
       tabs' = [tabs EXCEPT ![t].pc = "done",
                            ![t].projectsCache =
                                IF r.cache # Undefined THEN r.cache ELSE @]
    /\ UNCHANGED <<up, now, cacheBuilding, calls, lastBuilt, local, session, prefetch, fallback, pure>>

\* ---- environment --------------------------------------------------------

TicksUsed == (now - StartTime) \div CACHE_MAX_AGE_MS

Tick(d) ==
    /\ TicksUsed < MaxTicks
    /\ now' = now + d
    /\ UNCHANGED <<up, cacheBuilding, calls, lastBuilt, local, session, tabs, prefetch, fallback, pure>>

\* the account changes upstream: a company and a project are added
UpstreamChange(u) ==
    /\ up = UpOne
    /\ u # up
    /\ up' = u
    /\ UNCHANGED <<now, cacheBuilding, calls, lastBuilt, local, session, tabs, prefetch, fallback, pure>>

\* ------------------------------------------------------------------------
\* The service worker with its triggers and readers
\* ------------------------------------------------------------------------

EmptyLocal ==
    [apsClientId |-> "", apsClientSecret |-> "", apsAccountId |-> 0,
     companiesCache |-> Undefined, companiesCacheTimestamp |-> Absent,
     projectsCache |-> Undefined, projectsCacheTimestamp |-> Absent]

\* a fresh install, the three fields saved, or the credentials saved without
\* an account id
InitialLocals ==
    { EmptyLocal,
      [EmptyLocal EXCEPT !.apsClientId = "id", !.apsClientSecret = "secret",
                         !.apsAccountId = 1],
      [EmptyLocal EXCEPT !.apsClientId = "id", !.apsClientSecret = "secret"] }

EmptySession == [accBearerToken |-> 0, tokenExpiresAt |-> 0, accAccountId |-> 0]

\* no invocation of get2LeggedToken by the onChanged listener is in flight
IdlePrefetch == [pc |-> "idle", cfgAccountId |-> 0, newToken |-> 0, newExpiresAt |-> 0]

\* content.js, renderProjectsList: an invocation that has not been called.
\* pc is the await it is suspended at: fetchProjects (fetchAllProjects),
\* batch (Promise.allSettled of the batch that starts at index i); total is
\* its constant of that name, inflight the indices of cachedProjects whose
\* fetchProjectCompanies call has not settled, companyProjects the array it
\* filtered, shown what it put into its container.
IdleRender ==
    [pc |-> "idle", companyId |-> 0, i |-> 0, total |-> 0, inflight |-> {},
     companyProjects |-> <<>>, shown |-> ""]

\* content.js, lines 5-7: let cachedProjects = null, cachedProjectCompanyMap =
\* null; queried is history: the project ids fetchProjectCompanies was
\* called with, in the order of the calls
IdleFallback ==
    [cachedProjects |-> Undefined, cachedProjectCompanyMap |-> Undefined,
     renders |-> [r \in Renders |-> IdleRender], queried |-> <<>>]

\* sibling is history: the projects cache that was stored when the tab read
\* the companies cache
NewTab == [pc |-> "start", companiesCache |-> Undefined, projectsCache |-> Undefined,
           sibling |-> Undefined]

InitWorker ==
    /\ cacheBuilding = FALSE
    /\ calls = [i \in Calls |-> IdleCall]
    /\ lastBuilt = Undefined
    /\ session = EmptySession
    /\ tabs = [t \in Tabs |-> NewTab]
    /\ prefetch = IdlePrefetch
    /\ fallback = IdleFallback

InitPure ==
    /\ phase = "off"
    /\ out = Rejected(<<>>)
    /\ timestamp = Absent
    /\ stale = TRUE

Init ==
    /\ up \in Scenarios
    /\ now = StartTime
    /\ local \in InitialLocals
    /\ InitWorker
    /\ InitPure

Next ==
    \/ \E i \in Calls : PopupClick(i)
    \/ \E i \in Calls : HandleBuildCache(i)
    \/ \E i \in Calls : AlarmFire(i)
    \/ \E i \in Calls : AlarmDecide(i)
    \/ \E i \in Calls : EnsureToken(i)
    \/ \E i \in Calls : Get2LeggedToken(i)
    \/ \E i \in Calls : TokenRequest(i)
    \/ \E i \in Calls : TokenStore(i)
    \/ \E i \in Calls : AccountId(i)
    \/ \E i \in Calls : FetchCompanies(i)
    \/ \E i \in Calls : FetchUsers(i)
    \/ \E i \in Calls : FetchProjects(i)
    \/ \E i \in Calls : MapStep(i)
    \/ \E i \in Calls : StoreWrite(i)
    \/ \E i \in Calls : StoreReject(i)
    \/ \E i \in Calls : Finish(i)
    \/ \E t \in Tabs : TabGetCache(t)
    \/ \E t \in Tabs : TabGetProjectsCache(t)
    \/ \E d \in TickSteps : Tick(d)
    \/ \E u \in Scenarios : UpstreamChange(u)

Spec == Init /\ [][Next]_vars

\* The same behaviours, every awaited call of a running build settling: the
\* continuation of each await of triggerCacheBuild is eventually run.
Continue(i) ==
    \/ EnsureToken(i) \/ Get2LeggedToken(i) \/ TokenRequest(i) \/ TokenStore(i)
    \/ AccountId(i) \/ FetchCompanies(i) \/ FetchUsers(i) \/ FetchProjects(i)
    \/ MapStep(i) \/ StoreWrite(i) \/ StoreReject(i) \/ Finish(i)

\* Only one build runs at a time, so fairness of "some running build
\* continues" is what the assumption gives. The content scripts and the
\* upstream changes take no part in a build's progress and are left out.
LiveNext ==
    \/ \E i \in Calls : PopupClick(i)
    \/ \E i \in Calls : HandleBuildCache(i)
    \/ \E i \in Calls : AlarmFire(i)
    \/ \E i \in Calls : AlarmDecide(i)
    \/ \E i \in Calls : Continue(i)
    \/ \E d \in TickSteps : Tick(d)

FairSpec == Init /\ [][LiveNext]_vars /\ WF_vars(\E i \in Calls : Continue(i))

\* The service worker of a configured installation (client id, secret and
\* account id saved): messages are delivered, the callbacks of the alarm
\* listener and the continuations of a running build are run.
InitAuto ==
    /\ Init
    /\ local.apsClientId # "" /\ local.apsClientSecret # ""
    /\ local.apsAccountId # 0

AutoSpec ==
    /\ InitAuto
    /\ [][LiveNext]_vars
    /\ WF_vars(\E i \in Calls : Continue(i))
    /\ WF_vars(\E i \in Calls : HandleBuildCache(i))
    /\ WF_vars(\E i \in Calls : AlarmDecide(i))

\* ------------------------------------------------------------------------
\* The service worker while the configuration is edited: the popup saves the
\* three fields, the onChanged listener fetches a token when the client id
\* or the secret changed, and the clock passes a token's refresh margin.
\* ------------------------------------------------------------------------

\* what the user can type into the fields of the popup
ClientIds == {"", "id", "id2"}

ClientSecrets == {"secret"}

AccountIds == {0, 1, 2}

\* chrome.storage.onChanged: the keys of items whose value differs
Changes(store, items) == { k \in DOMAIN items : store[k] # items[k] }

\* popup.js, the click handler of Save: all three fields are required; the
\* write fires onChanged, whose listener calls get2LeggedToken when the
\* client id or the secret is among the changes. One such invocation is in
\* flight at a time.
SaveOptions(clientId, clientSecret, accountId) ==
    /\ clientId # "" /\ clientSecret # "" /\ accountId # 0
    /\ LET items == [apsClientId |-> clientId, apsClientSecret |-> clientSecret,
                     apsAccountId |-> accountId]
           changes == Changes(local, items)
       IN  /\ changes # {}
           /\ local' = LocalSet(local, items)
           /\ IF "apsClientId" \in changes \/ "apsClientSecret" \in changes
              THEN /\ prefetch.pc = "idle"
                   /\ prefetch' = [IdlePrefetch EXCEPT !.pc = "read"]
              ELSE UNCHANGED prefetch
    /\ UNCHANGED <<up, now, cacheBuilding, calls, lastBuilt, session, tabs, fallback, pure>>

\* get2LeggedToken called by the listener, lines 27-37; its rejection is
\* logged by the listener
PrefetchRead ==
    /\ prefetch.pc = "read"
    /\ prefetch' = IF local.apsClientId = "" \/ local.apsClientSecret = ""
                   THEN IdlePrefetch
                   ELSE [prefetch EXCEPT !.pc = "request",
                                         !.cfgAccountId = local.apsAccountId]
    /\ UNCHANGED <<up, now, cacheBuilding, calls, lastBuilt, local, session, tabs, fallback, pure>>

\* lines 44-60
PrefetchRequest ==
    /\ prefetch.pc = "request"
    /\ \E ok \in BOOLEAN :
          prefetch' = IF ok
                      THEN [prefetch EXCEPT !.pc = "store",
                                            !.newToken = now + TokenLifetimeMs,
                                            !.newExpiresAt = now + TokenLifetimeMs]
                      ELSE IdlePrefetch
    /\ UNCHANGED <<up, now, cacheBuilding, calls, lastBuilt, local, session, tabs, fallback, pure>>

\* lines 62-73
PrefetchStore ==
    /\ prefetch.pc = "store"
    /\ session' = [accBearerToken |-> prefetch.newToken,
                   tokenExpiresAt |-> prefetch.newExpiresAt,
                   accAccountId   |-> prefetch.cfgAccountId]
    /\ prefetch' = IdlePrefetch
    /\ UNCHANGED <<up, now, cacheBuilding, calls, lastBuilt, local, tabs, fallback, pure>>

\* milliseconds past the refresh margin of a token that the clock can reach
MaxLate == 1

\* the clock advances to the last moment at which ensureToken returns a
\* token obtained at the start, or past it
ElapseSteps == { TokenLifetimeMs - TokenMarginMs + d : d \in 0..MaxLate }

Elapse(d) ==
    /\ now + d <= StartTime + TokenLifetimeMs - TokenMarginMs + MaxLate
    /\ now' = now + d
    /\ UNCHANGED <<up, worker, pure>>

InitConfig ==
    /\ up = UpOne
    /\ now = StartTime
    /\ local \in InitialLocals
    /\ InitWorker
    /\ InitPure

\* the popup's button is disabled while its build runs: one trigger at a time
ConfigNext ==
    \/ PopupClick(1)
    \/ HandleBuildCache(1)
    \/ EnsureToken(1)
    \/ Get2LeggedToken(1)
    \/ TokenRequest(1)
    \/ TokenStore(1)
    \/ AccountId(1)
    \/ FetchCompanies(1)
    \/ FetchUsers(1)
    \/ FetchProjects(1)
    \/ MapStep(1)
    \/ StoreWrite(1)
    \/ StoreReject(1)
    \/ Finish(1)
    \/ \E clientId \in ClientIds, clientSecret \in ClientSecrets, accountId \in AccountIds :
          SaveOptions(clientId, clientSecret, accountId)
    \/ PrefetchRead
    \/ PrefetchRequest
    \/ PrefetchStore
    \/ \E d \in ElapseSteps : Elapse(d)

SpecConfig == InitConfig /\ [][ConfigNext]_vars

\* ------------------------------------------------------------------------
\* buildCompaniesCache on its own: the upstream is drawn from bounded sets
\* of inputs and the function is applied to it.
\* ------------------------------------------------------------------------

\* the longest companies list, projects list and per-project companies
\* response of the inputs
MaxEntities == 2

\* the longest per-project roster of the inputs
MaxRoster == 2

\* ids of the raw entities (0: the entity has no id)
EntityIds == {0, 1, 2}

CompanyOf(id) == Company(id, IF id = 1 THEN Acme ELSE IF id = 2 THEN Bolt ELSE <<>>)

ProjectOf(id) == Project(id, IF id = 1 THEN Tower ELSE IF id = 2 THEN Yard ELSE <<>>,
                         IF id = 2 THEN "acc" ELSE "")

\* a project member with the given id, of the given company
MemberOf(id, companyId) == User(id, Jo, <<>>, <<>>, "", 0, companyId)

MakeUp(companies, users, projects, projectCompanies, projectUsers) ==
    [companies |-> Srv(companies), users |-> Srv(users), projects |-> Srv(projects),
     projectCompanies |-> projectCompanies, projectUsers |-> projectUsers]

BaseUsers == <<User(1, Jo, <<>>, <<>>, "", 1, 0)>>

BaseRosters == [p \in ProjectIds |-> Srv(<<MemberOf(p, p)>>)]

\* Associations: companies lists with duplicates and entities without id,
\* every projects list, every response for project 1 (company 2 or company 1
\* can be absent from the companies collection)
CompanyLists == {<<>>, <<1>>, <<1, 2>>, <<2, 1>>, <<1, 1>>, <<0, 1>>}

SecondResponses == {<<>>, <<2>>, <<1, 2>>, <<2, 0>>}

AssocInputs ==
    { MakeUp(Map(cs, CompanyOf), BaseUsers, Map(ps, ProjectOf),
             [p \in ProjectIds |-> Srv(Map(IF p = 1 THEN r1 ELSE r2, CompanyOf))],
             BaseRosters) :
        cs \in CompanyLists, ps \in SeqsUpTo(EntityIds, MaxEntities),
        r1 \in SeqsUpTo(EntityIds, MaxEntities), r2 \in SecondResponses }

\* Rosters: every roster of project 1 over members with or without an id, of
\* company 1, company 2 or no company
Members == { MemberOf(id, cid) : id \in EntityIds, cid \in EntityIds }

SecondRosters == {<<>>, <<MemberOf(2, 2)>>, <<MemberOf(1, 1), MemberOf(2, 2)>>}

RosterInputs ==
    { MakeUp(<<CompanyOf(1), CompanyOf(2)>>, BaseUsers, <<ProjectOf(1), ProjectOf(2)>>,
             [p \in ProjectIds |->
                 Srv(IF p = 1 THEN <<CompanyOf(1), CompanyOf(2)>> ELSE <<CompanyOf(2)>>)],
             [p \in ProjectIds |-> Srv(IF p = 1 THEN r1 ELSE r2)]) :
        r1 \in SeqsUpTo(Members, MaxRoster), r2 \in SecondRosters }

\* Per-project failures: one request of one per-project fetcher of one
\* project fails, on its first page or, for a collection of more than one
\* page, on its second
FullPage(lim, f(_)) == [i \in 1..lim |-> f(i)]

SmallCompanies(p) == IF p = 1 THEN <<CompanyOf(1), CompanyOf(2)>> ELSE <<CompanyOf(2)>>

LargeCompanies == FullPage(ProjectCompaniesLimit, LAMBDA i : Company(i, <<>>))
                  \o <<Company(ProjectCompaniesLimit + 1, <<>>)>>

SmallRoster(p) == <<MemberOf(p, p)>>

LargeRoster == FullPage(ProjectUsersLimit, LAMBDA i : MemberOf(i, 1))
               \o <<MemberOf(ProjectUsersLimit + 1, 2)>>

FailureKinds == {"status", "throw"}

FailureInputs ==
    { MakeUp(<<CompanyOf(1), CompanyOf(2)>>, BaseUsers, <<ProjectOf(1), ProjectOf(2)>>,
             [p \in ProjectIds |->
                 IF p = f.project /\ f.fetcher = "companies"
                 THEN FailingSrv(IF f.page = 1 THEN SmallCompanies(p) ELSE LargeCompanies,
                                 f.at, f.kind)
                 ELSE Srv(SmallCompanies(p))],
             [p \in ProjectIds |->
                 IF p = f.project /\ f.fetcher = "users"
                 THEN FailingSrv(IF f.page = 1 THEN SmallRoster(p) ELSE LargeRoster,
                                 f.at, f.kind)
                 ELSE Srv(SmallRoster(p))]) :
        f \in { g \in [project : ProjectIds, fetcher : {"companies", "users"},
                       kind : FailureKinds, page : {1, 2}, at : {1, 2}] :
                g.at <= g.page } }

\* Names that differ in case only, and names whose order depends on the case
Alpha == <<65, 108, 112, 104, 97>>

AlphaLower == toLowerCase(Alpha)

BravoLower == <<98, 114, 97, 118, 111>>

Charlie == <<67, 104, 97, 114, 108, 105, 101>>

CharlieLower == toLowerCase(Charlie)

OrderNames == {Alpha, AlphaLower, BravoLower, Charlie, CharlieLower}

\* the longest companies list and projects list of the inputs with chosen names
MaxNamed == 3

NamedIds == 1..MaxNamed

\* Top level: companies 1..n and projects n..1 fetched with every choice of
\* names, no project being associated with a company
TopUp(f) ==
    MakeUp([k \in 1..Len(f) |-> Company(k, f[k])], BaseUsers,
           [k \in 1..Len(f) |-> Project(Len(f) + 1 - k, f[k], "")],
           [p \in NamedIds |-> Srv(<<>>)], [p \in NamedIds |-> Srv(<<>>)])

TopInputs == { TopUp(f) : f \in SeqsUpTo(OrderNames, MaxNamed) }

\* Nested projects and companies: two companies and two projects fetched in
\* either order, under names that can tie, each project naming one company
\* or both in either order
PairOrders == {<<1, 2>>, <<2, 1>>}

TieNames == {Alpha, AlphaLower, BravoLower}

PairResponses == PairOrders \cup {<<1>>, <<2>>}

NestedInputs ==
    { MakeUp([k \in 1..2 |-> Company(co[k], cn[co[k]])], BaseUsers,
             [k \in 1..2 |-> Project(po[k], pn[po[k]], "")],
             [p \in ProjectIds |-> Srv(Map(IF p = 1 THEN r1 ELSE r2,
                                           LAMBDA cid : Company(cid, cn[cid])))],
             BaseRosters) :
        co \in PairOrders, cn \in [ProjectIds -> TieNames],
        po \in PairOrders, pn \in [ProjectIds -> TieNames],
        r1 \in PairResponses, r2 \in PairResponses }

\* Nested users and members: two account users of company 1 and two members
\* of project 1 (of company 1), each pair in either order of ids, under
\* names that can tie
NamedUsers ==
    { [k \in 1..2 |-> User(o[k], f[k], <<>>, <<>>, "", 1, 1)] :
        o \in PairOrders, f \in [1..2 -> TieNames] }

TiedRosterInputs ==
    { MakeUp(<<CompanyOf(1), CompanyOf(2)>>, users, <<ProjectOf(1), ProjectOf(2)>>,
             [p \in ProjectIds |-> Srv(SmallCompanies(p))],
             [p \in ProjectIds |-> Srv(IF p = 1 THEN roster ELSE <<>>)]) :
        users \in NamedUsers, roster \in NamedUsers }

OrderInputs == TopInputs \cup NestedInputs \cup TiedRosterInputs

\* Account users: every users list over users with or without an id, of
\* company 1, company 2 or no company, the company named by company_id or by
\* companyId; company 1 is fetched twice or once, company 2 has project 1,
\* whose only member is of company 2
AccountUsers ==
    { User(id, Jo, <<>>, <<>>, "", cid, 0) : id \in EntityIds, cid \in EntityIds }
    \cup { User(id, Jo, <<>>, <<>>, "", 0, cid) : id \in EntityIds, cid \in EntityIds }

UserCompanyLists == {<<1, 2>>, <<1, 1>>}

AccountUserInputs ==
    { MakeUp(Map(cs, CompanyOf), users, <<ProjectOf(1)>>,
             [p \in ProjectIds |-> Srv(IF p = 1 THEN <<CompanyOf(2)>> ELSE <<>>)],
             [p \in ProjectIds |-> Srv(IF p = 1 THEN <<MemberOf(2, 2)>> ELSE <<>>)]) :
        cs \in UserCompanyLists, users \in SeqsUpTo(AccountUsers, MaxRoster) }

\* the upstream is one of the association, roster, failure, order or
\* account-user inputs
InitBuild ==
    /\ \/ up \in AssocInputs
       \/ up \in RosterInputs
       \/ up \in FailureInputs
       \/ up \in OrderInputs
       \/ up \in AccountUserInputs
    /\ now = StartTime
    /\ local = EmptyLocal
    /\ InitWorker
    /\ phase = "input"
    /\ out = Rejected(<<>>)
    /\ timestamp = Absent
    /\ stale = TRUE

Build ==
    /\ phase = "input"
    /\ out' = buildCompaniesCache(up)
    /\ phase' = "built"
    /\ UNCHANGED <<up, now, worker, timestamp, stale>>

SpecBuild == InitBuild /\ [][Build]_vars

\* ------------------------------------------------------------------------
\* One build from the popup against every upstream of the association
\* inputs: the invocation of triggerCacheBuild runs step by step and its
\* record logs the fetchers it calls.
\* ------------------------------------------------------------------------

ConfiguredLocal ==
    [EmptyLocal EXCEPT !.apsClientId = "id", !.apsClientSecret = "secret",
                       !.apsAccountId = 1]

InitMap ==
    /\ up \in AssocInputs
    /\ now = StartTime
    /\ local = ConfiguredLocal
    /\ InitWorker
    /\ InitPure

MapNext ==
    \/ PopupClick(1)
    \/ HandleBuildCache(1)
    \/ EnsureToken(1)
    \/ Get2LeggedToken(1)
    \/ TokenRequest(1)
    \/ TokenStore(1)
    \/ AccountId(1)
    \/ FetchCompanies(1)
    \/ FetchUsers(1)
    \/ FetchProjects(1)
    \/ MapStep(1)
    \/ StoreWrite(1)
    \/ StoreReject(1)
    \/ Finish(1)

SpecMap == InitMap /\ [][MapNext]_vars

\* ------------------------------------------------------------------------
\* buildCompaniesCache on entities with absent fields: one company, one
\* account user, one project, one project-companies entry and one member,
\* each with every choice of the fields it carries beside its id; the member
\* with or without an id.
\* ------------------------------------------------------------------------

\* the object with the given fields of r
Restrict(r, fields) == [f \in fields |-> r[f]]

JoMail == "jo@acme.test"

FullCompany == [id |-> 1, name |-> Acme]

FullUser == [id |-> 1, name |-> Jo, email |-> JoMail, companyId |-> 1]

FullProject == [id |-> 1, name |-> Tower, platform |-> "acc"]

FullMember(id) == [id |-> id, name |-> Jo, email |-> JoMail, companyId |-> 1]

Shapes(r) == { Restrict(r, {"id"} \cup fields) : fields \in SUBSET (DOMAIN r \ {"id"}) }

ShapeInputs ==
    { MakeUp(<<company>>, <<user>>, <<project>>,
             [p \in ProjectIds |-> Srv(IF p = 1 THEN <<named>> ELSE <<>>)],
             [p \in ProjectIds |-> Srv(IF p = 1 THEN <<member>> ELSE <<>>)]) :
        company \in Shapes(FullCompany), user \in Shapes(FullUser),
        project \in Shapes(FullProject), named \in Shapes(FullCompany),
        member \in Shapes(FullMember(0)) \cup Shapes(FullMember(1)) }

\* the end-to-end scenario of the specification
UpScenario ==
    MakeUp(<<[id |-> 1, name |-> Acme]>>,
           <<[id |-> 1, name |-> Jo, companyId |-> 1]>>,
           <<[id |-> 1, name |-> Tower]>>,
           [p \in ProjectIds |-> Srv(IF p = 1 THEN <<[id |-> 1]>> ELSE <<>>)],
           [p \in ProjectIds |->
               Srv(IF p = 1 THEN <<[id |-> 1, companyId |-> 1]>> ELSE <<>>)])

InitShape ==
    /\ up \in ShapeInputs
    /\ now = StartTime
    /\ local = EmptyLocal
    /\ InitWorker
    /\ phase = "input"
    /\ out = Rejected(<<>>)
    /\ timestamp = Absent
    /\ stale = TRUE

SpecShape == InitShape /\ [][Build]_vars

\* ------------------------------------------------------------------------
\* displayUserName on its own: the five name fields of a user record are
\* each absent or drawn from a few texts with leading, trailing and inner
\* spaces.
\* ------------------------------------------------------------------------

TextA == <<65>>

TextB == <<66>>

NameTexts ==
    { <<>>, <<SPACE>>, TextA, <<SPACE>> \o TextA \o <<SPACE>>,
      TextA \o <<SPACE>> \o TextB }

NameFields == {"name", "first_name", "firstName", "last_name", "lastName"}

\* every user record with an id and any subset of the name fields
NameInputs ==
    { ("id" :> 1) @@ f :
        f \in UNION { [fields -> NameTexts] : fields \in SUBSET NameFields } }

InitName ==
    /\ out \in { [user |-> u] : u \in NameInputs }
    /\ up = UpOne
    /\ now = StartTime
    /\ local = EmptyLocal
    /\ InitWorker
    /\ phase = "input"
    /\ timestamp = Absent
    /\ stale = TRUE

EvalName ==
    /\ phase = "input"
    /\ out' = [user |-> out.user, displayName |-> displayUserName(out.user)]
    /\ phase' = "named"
    /\ UNCHANGED <<up, now, worker, timestamp, stale>>

SpecName == InitName /\ [][EvalName]_vars

\* ------------------------------------------------------------------------
\* isCacheStale on its own: the timestamp and the clock are drawn from
\* bounded sets around 0, around the start time and around the maximum age.
\* ------------------------------------------------------------------------

\* how far around each boundary the timestamps and the clock range
StaleSpan == 2

Timestamps ==
    {Absent} \cup (0..StaleSpan) \cup (StartTime..(StartTime + StaleSpan))

Clocks ==
    (0..StaleSpan)
    \cup { t + CACHE_MAX_AGE_MS + d :
             t \in Timestamps \ {Absent}, d \in (0 - StaleSpan)..StaleSpan }

InitStale ==
    /\ timestamp \in Timestamps
    /\ now \in Clocks
    /\ up = UpOne
    /\ local = EmptyLocal
    /\ InitWorker
    /\ phase = "input"
    /\ out = Rejected(<<>>)
    /\ stale = TRUE

EvalStale ==
    /\ phase = "input"
    /\ stale' = isCacheStale(timestamp, now)
    /\ phase' = "evaluated"
    /\ UNCHANGED <<up, now, worker, out, timestamp>>

SpecStale == InitStale /\ [][EvalStale]_vars

\* ------------------------------------------------------------------------
\* The five fetchers on their own: each is applied to a server of one
\* collection, whose sizes lie around the multiples of the page limits.
\* ------------------------------------------------------------------------

\* the collections span up to MaxPages full pages, and one item more
MaxPages == 2

Fetchers == {"companies", "users", "projects", "projectCompanies", "projectUsers"}

AccountFetchers == {"companies", "users", "projects"}

LimitOf(fetcher) ==
    CASE fetcher = "companies"        -> CompaniesLimit
      [] fetcher = "users"            -> UsersLimit
      [] fetcher = "projects"         -> ProjectsLimit
      [] fetcher = "projectCompanies" -> ProjectCompaniesLimit
      [] fetcher = "projectUsers"     -> ProjectUsersLimit

CollectionSizes ==
    {0, 1} \cup { k * LimitOf(f) + d : f \in Fetchers, k \in 1..MaxPages, d \in {-1, 0, 1} }

\* a collection of n items
Collection(n) == [i \in 1..n |-> i]

FailStatuses == {403, 500}

FailBodies == {"", "denied"}

\* a server that answers every page request, with or without totalResults
FaithfulServers ==
    { [Srv(Collection(n)) EXCEPT !.total = IF withTotal THEN n ELSE Absent] :
        n \in CollectionSizes, withTotal \in BOOLEAN }

\* a server one of whose page requests fails
FailingServers ==
    { [FailingSrv(Collection(e.n), e.k, e.kind) EXCEPT
          !.failStatus = e.status, !.failBody = e.body] :
        e \in [n : CollectionSizes, k : 1..(MaxPages + 1), kind : FailureKinds,
               status : FailStatuses, body : FailBodies] }

\* the upstream in which every collection is served by srv
UpOf(srv) ==
    [companies |-> srv, users |-> srv, projects |-> srv,
     projectCompanies |-> [p \in ProjectIds |-> srv],
     projectUsers |-> [p \in ProjectIds |-> srv]]

\* the server a fetcher talks to (for the per-project ones, that of project 1)
ServerFor(fetcher) ==
    CASE fetcher = "companies"        -> up.companies
      [] fetcher = "users"            -> up.users
      [] fetcher = "projects"         -> up.projects
      [] fetcher = "projectCompanies" -> up.projectCompanies[1]
      [] fetcher = "projectUsers"     -> up.projectUsers[1]

\* what a fetcher returns or throws, and the number of requests it made;
\* the per-project fetchers never throw
Returned(r) == [ok |-> TRUE, items |-> r.items, error |-> <<>>, requests |-> r.requests]

FetchWith(fetcher, srv) ==
    CASE fetcher = "companies"        -> CompaniesFetchAll(srv)
      [] fetcher = "users"            -> UsersFetchAll(srv)
      [] fetcher = "projects"         -> ProjectsFetchAll(srv)
      [] fetcher = "projectCompanies" -> Returned(fetchProjectCompanies(srv))
      [] fetcher = "projectUsers"     -> Returned(fetchProjectUsers(srv))

InitFetch ==
    /\ up \in { UpOf(srv) : srv \in FaithfulServers \cup FailingServers }
    /\ now = StartTime
    /\ local = EmptyLocal
    /\ InitWorker
    /\ phase = "input"
    /\ out = Rejected(<<>>)
    /\ timestamp = Absent
    /\ stale = TRUE

Fetch(fetcher) ==
    /\ phase = "input"
    /\ out' = With(FetchWith(fetcher, ServerFor(fetcher)),
                   LAMBDA r : [fetcher |-> fetcher, ok |-> r.ok, items |-> r.items,
                               error |-> r.error, requests |-> r.requests])
    /\ phase' = "fetched"
    /\ UNCHANGED <<up, now, worker, timestamp, stale>>

FetchNext == \E fetcher \in Fetchers : Fetch(fetcher)

SpecFetch == InitFetch /\ [][FetchNext]_vars

\* ------------------------------------------------------------------------
\* The pagination loops request by request: one fetcher runs against one
\* server, each step is one page request and what the loop does with its
\* answer. The record of the loop holds
\*   fetcher, offset : the loop's fetcher and its variable offset
\*   items           : the array the loop pushes to
\*   log             : history, the offset sent and the number of items
\*                     received for each request made
\*   ok              : FALSE once the loop has thrown
\* ------------------------------------------------------------------------

Sent(offset, received) == [offset |-> offset, received |-> received]

\* variant: the loops go on until a page comes back empty
GoesOnUntilEmpty(fetcher, srv, received, offset) == TRUE

\* after a non-empty page was pushed and the offset advanced: does the loop
\* go on? (batch.length < limit breaks; fetchProjectUsers also breaks once
\* the offset has reached pagination.totalResults)
GoesOn(fetcher, srv, received, offset) ==
    /\ ~(fetcher = "projectUsers" /\ srv.total # Absent /\ offset >= srv.total)
    /\ received >= LimitOf(fetcher)

\* offset += limit, or offset += results.length in fetchProjectUsers
Advance(fetcher, offset, received) ==
    IF fetcher = "projectUsers" THEN offset + received ELSE offset + LimitOf(fetcher)

InitPage ==
    /\ up \in { UpOf(srv) : srv \in FaithfulServers \cup FailingServers }
    /\ now = StartTime
    /\ local = EmptyLocal
    /\ InitWorker
    /\ phase = "input"
    /\ out = Rejected(<<>>)
    /\ timestamp = Absent
    /\ stale = TRUE

\* the fetcher is called: its locals are initialised
StartPaging(fetcher) ==
    /\ phase = "input"
    /\ out' = [fetcher |-> fetcher, offset |-> 0, items |-> <<>>, log |-> <<>>,
               ok |-> TRUE]
    /\ phase' = "paging"
    /\ UNCHANGED <<up, now, worker, timestamp, stale>>

\* one iteration of while (true): the request settles and the loop breaks,
\* throws or goes round
RequestPage ==
    /\ phase = "paging"
    /\ LET srv      == ServerFor(out.fetcher)
           resp     == Respond(srv, Len(out.log) + 1, out.offset, LimitOf(out.fetcher))
           received == Len(resp.batch)
           log      == Append(out.log, Sent(out.offset, received))
           offset   == Advance(out.fetcher, out.offset, received)
       IN  IF resp.kind # "ok"
           THEN /\ out' = [out EXCEPT
                      !.log = log,
                      !.ok = out.fetcher \in {"projectCompanies", "projectUsers"},
                      !.items = IF out.fetcher = "projectUsers"
                                   \/ (out.fetcher = "projectCompanies"
                                       /\ resp.kind = "status")
                                THEN @ ELSE <<>>]
                /\ phase' = "returned"
           ELSE IF received = 0
           THEN /\ out' = [out EXCEPT !.log = log]
                /\ phase' = "returned"
           ELSE /\ out' = [out EXCEPT !.log = log, !.items = @ \o resp.batch,
                                      !.offset = offset]
                /\ phase' = IF GoesOn(out.fetcher, srv, received, offset)
                            THEN "paging" ELSE "returned"
    /\ UNCHANGED <<up, now, worker, timestamp, stale>>

PageNext ==
    \/ \E fetcher \in Fetchers : StartPaging(fetcher)
    \/ RequestPage

SpecPage == InitPage /\ [][PageNext]_vars

\* every page request settles, and the loop runs on when it has
FairSpecPage == SpecPage /\ WF_vars(PageNext)

\* ------------------------------------------------------------------------
\* content.js: the on-demand path of renderProjectsList. No pre-built cache
\* is loaded (companiesCache is null), so every expanding click on a
\* projects count runs the fallback; the click handlers interleave at their
\* awaits. The upstream also says for which projects the GET_TOKEN request
\* of api.js fetchProjectCompanies is answered with an error (tokenFails).
\* ------------------------------------------------------------------------

\* const batchSize = 10
BatchSize == 10

\* api.js fetchProjectCompanies: ...users?limit=200 of the fallback request
MembersLimit == 200

\* the distinct truthy company ids of the members, in order of appearance
RECURSIVE MemberCompanyIds(_)
MemberCompanyIds(members) ==
    IF members = <<>> THEN <<>>
    ELSE LET before == MemberCompanyIds(SubSeq(members, 1, Len(members) - 1))
             cid    == Lookup(members[Len(members)], "companyId", 0)
         IN  IF cid = 0 \/ cid \in Range(before) THEN before ELSE Append(before, cid)

\* api.js fetchProjectCompanies(projectId), once the credentials are there:
\* the companies of the HQ endpoint or, when there are none, one { id } per
\* company id of the project members; [] when that request fails
ApiProjectCompanies(pid) ==
    LET primary == fetchProjectCompanies(up.projectCompanies[pid]).items
        resp    == Respond(up.projectUsers[pid], 1, 0, MembersLimit)
    IN  IF Len(primary) > 0 THEN primary
        ELSE IF resp.kind = "ok"
        THEN Map(MemberCompanyIds(resp.batch), LAMBDA cid : [id |-> cid])
        ELSE <<>>

\* the body of batch.map(async (project) => ...): what the settled call
\* leaves in cachedProjectCompanyMap[project.id]
MapEntry(pid) ==
    IF pid \in up.tokenFails THEN <<>>
    ELSE Map(ApiProjectCompanies(pid), LAMBDA c : c.id)

\* variant: every remaining project is queried at once
BatchOfAllRemaining(projects, i) == (i + 1)..Len(projects)

\* the indices of cachedProjects.slice(i, i + batchSize)
BatchOf(projects, i) == (i + 1)..Min2(i + BatchSize, Len(projects))

\* lines 481-484: cachedProjects.filter(...) against the map as it is
CompanyProjects(f, companyId) ==
    LET m == f.cachedProjectCompanyMap[1] IN
    SelectSeq(f.cachedProjects[1],
              LAMBDA p : p.id \in DOMAIN m /\ companyId \in Range(m[p.id]))

\* lines 481-490 and the rendering: the invocation r filters and returns
Filtered(f, r) ==
    LET companyProjects == CompanyProjects(f, f.renders[r].companyId) IN
    [f EXCEPT !.renders[r].pc = "returned",
              !.renders[r].inflight = {},
              !.renders[r].companyProjects = companyProjects,
              !.renders[r].shown = IF companyProjects = <<>> THEN "empty" ELSE "projects"]

\* the for loop at index i: the next batch is sent, or the loop is over
LoopFrom(f, r, i) ==
    IF i >= f.renders[r].total THEN Filtered(f, r)
    ELSE LET batch == BatchOf(f.cachedProjects[1], i) IN
         [f EXCEPT !.renders[r].pc = "batch",
                   !.renders[r].i = i,
                   !.renders[r].inflight = batch,
                   !.queried = @ \o [k \in 1..Cardinality(batch) |->
                                        f.cachedProjects[1][i + k].id]]

\* lines 450-480, with cachedProjects set: the invocation r returns for a
\* missing company id, populates the map if there is none, or goes on to
\* the filter
AfterProjects(f, r) ==
    IF f.renders[r].companyId = 0
    THEN [f EXCEPT !.renders[r].pc = "returned", !.renders[r].shown = "noCompanyId"]
    ELSE IF f.cachedProjectCompanyMap = Undefined
    THEN LoopFrom([f EXCEPT !.cachedProjectCompanyMap = Stored(<<>>),
                            !.renders[r].total = Len(f.cachedProjects[1])],
                  r, 0)
    ELSE Filtered(f, r)

\* an expanding click on a projects count, the company id found or not:
\* renderProjectsList runs up to its first await
ClickProjects(r, companyId) ==
    /\ fallback.renders[r].pc = "idle"
    /\ LET f == [fallback EXCEPT !.renders[r].companyId = companyId] IN
       fallback' = IF f.cachedProjects = Undefined
                   THEN [f EXCEPT !.renders[r].pc = "fetchProjects"]
                   ELSE AfterProjects(f, r)
    /\ UNCHANGED <<up, now, cacheBuilding, calls, lastBuilt, local, session, tabs,
                   prefetch, pure>>

\* cachedProjects = await fetchAllProjects(): the list arrives, or the
\* rejection is caught by the click handler
ProjectsArrive(r) ==
    /\ fallback.renders[r].pc = "fetchProjects"
    /\ LET projects == ProjectsFetchAll(up.projects) IN
       fallback' =
           IF projects.ok
           THEN AfterProjects([fallback EXCEPT !.cachedProjects = Stored(projects.items)], r)
           ELSE [fallback EXCEPT !.renders[r].pc = "returned",
                                 !.renders[r].shown = "error"]
    /\ UNCHANGED <<up, now, cacheBuilding, calls, lastBuilt, local, session, tabs,
                   prefetch, pure>>

\* the call for cachedProjects[j] settles and writes its entry; with the
\* last call of the batch Promise.allSettled resolves and the loop goes on
CompaniesArrive(r, j) ==
    /\ fallback.renders[r].pc = "batch"
    /\ j \in fallback.renders[r].inflight
    /\ LET pid  == fallback.cachedProjects[1][j].id
           m    == fallback.cachedProjectCompanyMap[1]
           f    == [fallback EXCEPT
                      !.cachedProjectCompanyMap =
                          Stored([p \in DOMAIN m \cup {pid} |->
                                     IF p = pid THEN MapEntry(pid) ELSE m[p]]),
                      !.renders[r].inflight = @ \ {j}]
       IN  fallback' = IF f.renders[r].inflight = {}
                       THEN LoopFrom(f, r, f.renders[r].i + BatchSize)
                       ELSE f
    /\ UNCHANGED <<up, now, cacheBuilding, calls, lastBuilt, local, session, tabs,
                   prefetch, pure>>

\* the accounts the fallback meets: n projects; company 1 is in the projects
\* 1, 2 and the last, company 2 in project 2, company 3 in the others
FallbackTotals == {0, 1, BatchSize, BatchSize + 1}

FallbackQuirks == {"none", "tokenFirst", "tokenLast", "derived", "projectsFail"}

FallbackCompanies(p, n) ==
    IF p = 2 THEN <<CompanyOf(1), CompanyOf(2)>>
    ELSE IF p = 1 \/ p = n THEN <<CompanyOf(1)>>
    ELSE <<Company(3, <<>>)>>

\* quirks: the token request fails for the first or for the last project,
\* project 1 has no company at the HQ endpoint and members of company 1, or
\* the projects request is refused
FallbackUp(n, quirk) ==
    [companies |-> Srv(<<>>), users |-> Srv(<<>>),
     projects  |-> IF quirk = "projectsFail"
                   THEN FailingSrv([p \in 1..n |-> Project(p, <<>>, "")], 1, "status")
                   ELSE Srv([p \in 1..n |-> Project(p, <<>>, "")]),
     projectCompanies |-> [p \in 1..n |->
         IF quirk = "derived" /\ p = 1 THEN Srv(<<>>)
         ELSE Srv(FallbackCompanies(p, n))],
     projectUsers |-> [p \in 1..n |-> Srv(<<MemberOf(1, 1), MemberOf(2, 1)>>)],
     tokenFails |-> IF n = 0 THEN {}
                    ELSE IF quirk = "tokenFirst" THEN {1}
                    ELSE IF quirk = "tokenLast" THEN {n} ELSE {}]

FallbackCompanyIds == {0, 1, 2}

InitFallback ==
    /\ up \in { FallbackUp(n, quirk) : n \in FallbackTotals, quirk \in FallbackQuirks }
    /\ now = StartTime
    /\ local = ConfiguredLocal
    /\ InitWorker
    /\ InitPure

FallbackNext ==
    \/ \E r \in Renders, companyId \in FallbackCompanyIds : ClickProjects(r, companyId)
    \/ \E r \in Renders : ProjectsArrive(r)
    \/ \E r \in Renders, j \in 1..(BatchSize + 1) : CompaniesArrive(r, j)

SpecFallback == InitFallback /\ [][FallbackNext]_vars

\* ------------------------------------------------------------------------
\* Tabs loading at once: the content script of each tab runs
\* loadCompaniesCache, against a store without a cache, with a fresh cache
\* or with a stale one, and the builds the tabs trigger run.
\* ------------------------------------------------------------------------

\* the tabs that load
LoadingTabs == 2

\* the store after a build of the README scenario at the given time
LocalWithCache(time) ==
    LocalSet(ConfiguredLocal, CacheItems(buildCompaniesCache(UpOne), time))

\* a fresh install, a configured one without a cache, with a cache written
\* a moment ago, and with a cache older than the maximum age
TabLocals ==
    { EmptyLocal, ConfiguredLocal, LocalWithCache(StartTime - 1),
      LocalWithCache(StartTime - CACHE_MAX_AGE_MS - 1) }

InitTabs ==
    /\ up = UpOne
    /\ now = StartTime
    /\ local \in TabLocals
    /\ cacheBuilding = FALSE
    /\ calls = [i \in Calls |-> IdleCall]
    /\ lastBuilt = IF local.companiesCache = Undefined THEN Undefined
                   ELSE Stored([companiesCache |-> local.companiesCache[1],
                                projectsCache  |-> local.projectsCache[1]])
    /\ session = EmptySession
    /\ tabs = [t \in 1..LoadingTabs |-> NewTab]
    /\ prefetch = IdlePrefetch
    /\ fallback = IdleFallback
    /\ InitPure

TabsNext ==
    \/ \E t \in 1..LoadingTabs : TabGetCache(t)
    \/ \E t \in 1..LoadingTabs : TabGetProjectsCache(t)
    \/ \E i \in Calls : HandleBuildCache(i)
    \/ \E i \in Calls : EnsureToken(i)
    \/ \E i \in Calls : Get2LeggedToken(i)
    \/ \E i \in Calls : TokenRequest(i)
    \/ \E i \in Calls : TokenStore(i)
    \/ \E i \in Calls : AccountId(i)
    \/ \E i \in Calls : FetchCompanies(i)
    \/ \E i \in Calls : FetchUsers(i)
    \/ \E i \in Calls : FetchProjects(i)
    \/ \E i \in Calls : MapStep(i)
    \/ \E i \in Calls : StoreWrite(i)
    \/ \E i \in Calls : StoreReject(i)
    \/ \E i \in Calls : Finish(i)

\* variant: the promise of triggerCacheBuild handled by then alone, a
\* rejection sending nothing
BuildCacheResponsesWithoutCatch(c) ==
    IF c.pc = "resolved"
    THEN <<[success |-> TRUE, count |-> Len(c.built.companiesCache)]>>
    ELSE <<>>

\* onMessage, BUILD_CACHE, lines 161-165: what sendResponse has been called
\* with for the message of record c. The then callback runs when the promise
\* of triggerCacheBuild resolves, with the companies cache it returns; the
\* catch callback runs when it rejects, with the error's message; neither
\* runs before the promise settles.
BuildCacheResponses(c) ==
    IF c.pc = "resolved"
    THEN <<[success |-> TRUE, count |-> Len(c.built.companiesCache)]>>
    ELSE IF c.pc = "rejected"
    THEN <<[error |-> c.result]>>
    ELSE <<>>

\* the worker runs the handlers of delivered messages and the continuations
\* of a running build
FairSpecTabs ==
    /\ InitTabs
    /\ [][TabsNext]_vars
    /\ WF_vars(\E i \in Calls : HandleBuildCache(i))
    /\ WF_vars(\E i \in Calls : Continue(i))

SpecTabs == InitTabs /\ [][TabsNext]_vars

\* ------------------------------------------------------------------------
\* Claims about the build orchestrator
\* ------------------------------------------------------------------------

\* C1. Single-flight mutual exclusion: at most one invocation of
\* triggerCacheBuild is between cacheBuilding = true and its finally block,
\* and the flag is set whenever one is.
C1_SingleFlight ==
    /\ Cardinality({ i \in Calls : Building(i) }) <= 1
    /\ (\E i \in Calls : Building(i)) => cacheBuilding

\* a build is in its mapping loop while another trigger has been rejected
C1_Witness ==
    \E i, j \in Calls :
        /\ calls[i].pc = "mapping"
        /\ calls[j].pc = "rejected" /\ calls[j].result = InProgressError

\* a trigger reaches triggerCacheBuild in this step
Enters(i) ==
    /\ calls[i].pc \in {"requested", "alarm"}
    /\ calls'[i].pc \notin {calls[i].pc, "skipped"}

\* C2. A call of triggerCacheBuild made while another build is unresolved
\* rejects at once with "Cache build already in progress.", has done no work
\* (no token, no fetch, no progress message, no storage write), leaves the
\* flag set and leaves the running build, the storage and the upstream
\* exactly as they were.
C2_SecondCallRejected ==
    [][\A i \in Calls :
         (Enters(i) /\ \E j \in Calls \ {i} : Building(j)) =>
            /\ calls'[i] = Settled(calls[i], "rejected", InProgressError)
            /\ calls'[i].progress = <<>> /\ calls'[i].token = 0
            /\ cacheBuilding /\ cacheBuilding'
            /\ \A j \in Calls \ {i} : calls'[j] = calls[j]
            /\ UNCHANGED <<local, session, lastBuilt, up, now, tabs>>]_vars

\* a build has resolved although a second call was rejected meanwhile
C2_Witness ==
    \E i, j \in Calls :
        /\ calls[i].pc = "resolved"
        /\ calls[j].pc = "rejected" /\ calls[j].result = InProgressError
        /\ local.companiesCache = Stored(calls[i].built.companiesCache)

\* C3. Idle -> Building -> Idle: with every awaited call settling, a build
\* that entered Building returns to Idle, whether it succeeds or fails, and a
\* trigger that reaches triggerCacheBuild while the flag is clear is accepted.
C3_BuildReturnsToIdle ==
    /\ cacheBuilding ~> ~cacheBuilding
    /\ [][\A i \in Calls :
            (Enters(i) /\ ~cacheBuilding) =>
                (calls'[i].pc = "ensureToken" /\ cacheBuilding')]_vars

\* a build is running after an earlier one failed at the token endpoint
C3_Witness ==
    \E i, j \in Calls :
        /\ calls[i].pc = "rejected" /\ calls[i].result = TokenError
        /\ Building(j)

FatalErrors ==
    {CredentialsError, TokenError, NoAccountError, StorageError}
    \cup { FetchError(<<k, w>>) : k \in {"API", "fetch"},
                                 w \in {"companies", "users", "projects"} }

\* C4. A build that ends without its storage write having succeeded rejects
\* with the error of the failing step, and the persisted cache record is
\* exactly what it was when the build started.
C4_FailureKeepsCache ==
    [][\A i \in Calls :
         (Building(i) /\ calls[i].pc # "stored" /\ ~Building(i)') =>
            /\ calls'[i].pc = "rejected"
            /\ calls'[i].result \in FatalErrors
            /\ Stored(CacheRecord(local')) = calls[i].startCache]_vars

\* a build failed at the users endpoint and an earlier generation is stored
C4_Witness ==
    \E i \in Calls :
        /\ calls[i].pc = "rejected"
        /\ calls[i].result = FetchError(<<"API", "users">>)
        /\ local.companiesCache # Undefined
        /\ local.companiesCacheTimestamp = StartTime

\* C5. The two stored timestamps are equal, and the two stored caches are
\* the two outputs of the build that wrote last (both missing before the
\* first successful build).
C5_OneGenerationStored ==
    /\ local.companiesCacheTimestamp = local.projectsCacheTimestamp
    /\ IF lastBuilt = Undefined
       THEN local.companiesCache = Undefined /\ local.projectsCache = Undefined
       ELSE /\ local.companiesCache = Stored(lastBuilt[1].companiesCache)
            /\ local.projectsCache = Stored(lastBuilt[1].projectsCache)

\* a second generation replaced the first, and a later build failed
C5_Witness ==
    /\ local.companiesCacheTimestamp > StartTime
    /\ Len(local.companiesCache[1]) = 2
    /\ Len(local.projectsCache[1]) = 2
    /\ \E i \in Calls : calls[i].pc = "rejected" /\ calls[i].result = StorageError

\* C6. A content script that has loaded both caches holds the projects cache
\* of the generation its companies cache came from.
C6_ReaderSeesOneGeneration ==
    \A t \in Tabs :
        (/\ tabs[t].pc = "done"
         /\ tabs[t].companiesCache # Undefined
         /\ tabs[t].projectsCache # Undefined)
        => tabs[t].projectsCache = tabs[t].sibling

\* C11. Refresh gating: the alarm listener calls triggerCacheBuild exactly
\* when the alarm is the refresh alarm, the client id and secret it read are
\* configured and isCacheStale of the timestamp it read is true when it
\* decides; an alarm that starts no build changes nothing; a BUILD_CACHE
\* message reaches triggerCacheBuild whatever the stored timestamp is, and
\* starts a build unless one is running.
C11_RefreshGating ==
    [][\A i \in Calls :
         /\ (calls[i].pc = "alarm" /\ calls'[i] # calls[i]) =>
               LET data == calls[i].alarmData[1]
                   gate == /\ data.apsClientId # "" /\ data.apsClientSecret # ""
                           /\ (\/ data.companiesCacheTimestamp = Absent
                               \/ data.companiesCacheTimestamp = 0
                               \/ now - data.companiesCacheTimestamp
                                      > 2 * 60 * 60 * 1000)
               IN  IF gate
                   THEN calls'[i].pc = (IF cacheBuilding THEN "rejected"
                                        ELSE "ensureToken")
                   ELSE calls'[i].pc = "skipped"
         /\ (calls[i].pc \in FreePcs \cup {"alarm"} /\ calls'[i] # calls[i]
                /\ calls'[i].pc = "skipped") =>
               /\ \A j \in Calls \ {i} : calls'[j] = calls[j]
               /\ UNCHANGED <<cacheBuilding, local, session, lastBuilt, up, now, tabs>>
         /\ (calls[i].pc = "requested" /\ calls'[i] # calls[i]) =>
               calls'[i].pc = (IF cacheBuilding THEN "rejected" ELSE "ensureToken")
      ]_vars

\* the refresh alarm fired with the credentials configured and a fresh cache
\* stored, and no build was started
C11_Witness ==
    \E i \in Calls :
        /\ calls[i].pc = "skipped"
        /\ local.apsClientId # "" /\ local.apsClientSecret # ""
        /\ local.companiesCacheTimestamp = now
        /\ ~cacheBuilding

\* the stored cache is stale now
StoredCacheStale ==
    \/ local.companiesCacheTimestamp = Absent
    \/ now - local.companiesCacheTimestamp > 2 * 60 * 60 * 1000

\* the refresh alarm fires and the listener reads the storage
RefreshAlarmFires == \E i \in Calls : AlarmFire(i) /\ calls'[i].pc = "alarm"

\* a build fails in this step: at the token endpoint, at an account-level
\* fetch or at the storage write
BuildFails ==
    \E i \in Calls :
        /\ Building(i) /\ calls'[i].pc = "rejected"

\* C12. Auto-refresh liveness, in a configured installation: if the refresh
\* alarm keeps firing and from some time on no awaited call of a build fails,
\* a stale (or absent) cache is eventually replaced by a non-stale generation;
\* and a build that fails leaves a stale cache stale.
C12_StaleCacheIsRefreshed ==
    /\ ([]<><<RefreshAlarmFires>>_vars /\ <>[][~BuildFails]_vars)
          => (StoredCacheStale ~> ~StoredCacheStale)
    /\ [][(BuildFails /\ StoredCacheStale) => StoredCacheStale']_vars

\* a non-stale generation is stored after a build failed at the projects
\* endpoint and the clock advanced beyond the age of the first generation
C12_Witness ==
    /\ ~StoredCacheStale
    /\ local.companiesCacheTimestamp > StartTime
    /\ \E i \in Calls :
          calls[i].pc = "rejected" /\ calls[i].result = FetchError(<<"API", "projects">>)

\* ------------------------------------------------------------------------
\* Claims about buildCompaniesCache
\* ------------------------------------------------------------------------

Uuids(records) == { records[i].uuid : i \in 1..Len(records) }

\* C7. Reverse-index agreement: for every entry C of companiesCache and every
\* entry P of projectsCache of one build, P.uuid is among the uuids of
\* C.projects exactly when C.uuid is among the uuids of P.companies.
C7_ReverseIndexAgrees ==
    (phase = "built" /\ out.ok) =>
        \A c \in 1..Len(out.companiesCache), p \in 1..Len(out.projectsCache) :
            (out.projectsCache[p].uuid \in Uuids(out.companiesCache[c].projects))
            <=> (out.companiesCache[c].uuid \in Uuids(out.projectsCache[p].companies))

\* a build of an account with a duplicated company, a project without id and
\* a project whose response names a company absent from the collection, in
\* which a company lists a project
C7_Witness ==
    /\ phase = "built" /\ out.ok
    /\ \E c, d \in 1..Len(out.companiesCache) :
          c # d /\ out.companiesCache[c].uuid = out.companiesCache[d].uuid
    /\ \E j \in 1..Len(up.projects.items) : up.projects.items[j].id = 0
    /\ \E p \in 1..Len(out.projectsCache) :
          /\ Uuids(out.projectsCache[p].companies) \ Uuids(out.companiesCache) # {}
          /\ \E c \in 1..Len(out.companiesCache) :
                out.projectsCache[p].uuid \in Uuids(out.companiesCache[c].projects)

\* the roster of a project: what fetchProjectUsers returned for it
Roster(pid) == fetchProjectUsers(up.projectUsers[pid]).items

\* C8, as stated. Member intersection: each record embedded under company C
\* for project P comes from a roster member of company C, and every roster
\* member of company C appears in the embedded list exactly once.
C8_EveryCompanyMemberOnce ==
    (phase = "built" /\ out.ok) =>
        \A c \in 1..Len(out.companiesCache) :
            LET C == out.companiesCache[c] IN
            \A p \in 1..Len(C.projects) :
                LET P      == C.projects[p]
                    roster == Roster(P.uuid)
                IN  /\ \A r \in 1..Len(P.members) :
                          \E k \in 1..Len(roster) :
                              /\ roster[k].companyId = C.uuid
                              /\ roster[k].id = P.members[r].uuid
                    /\ \A k \in 1..Len(roster) :
                          roster[k].companyId = C.uuid =>
                              Cardinality({ r \in 1..Len(P.members) :
                                              P.members[r].uuid = roster[k].id }) = 1

\* C8, amended. Each record embedded under company C for project P comes from
\* a roster member of company C that has an id, and every roster member of
\* company C that has an id appears in the embedded list once per occurrence
\* in the roster; roster members without an id are left out.
C8_MembersWithIdOncePerOccurrence ==
    (phase = "built" /\ out.ok) =>
        \A c \in 1..Len(out.companiesCache) :
            LET C == out.companiesCache[c] IN
            \A p \in 1..Len(C.projects) :
                LET P      == C.projects[p]
                    roster == Roster(P.uuid)
                IN  /\ \A r \in 1..Len(P.members) :
                          /\ P.members[r].uuid # 0
                          /\ \E k \in 1..Len(roster) :
                                /\ roster[k].companyId = C.uuid
                                /\ roster[k].id = P.members[r].uuid
                    /\ \A k \in 1..Len(roster) :
                          (roster[k].companyId = C.uuid /\ roster[k].id # 0) =>
                              Cardinality({ r \in 1..Len(P.members) :
                                              P.members[r].uuid = roster[k].id })
                              = Cardinality({ j \in 1..Len(roster) :
                                                /\ roster[j].id = roster[k].id
                                                /\ roster[j].companyId = C.uuid })

\* a roster lists a member of the company twice and another one without id;
\* the embedded list has the first one twice
C8_Witness ==
    /\ phase = "built" /\ out.ok
    /\ \E c \in 1..Len(out.companiesCache) :
          LET C == out.companiesCache[c] IN
          \E p \in 1..Len(C.projects) :
              LET P      == C.projects[p]
                  roster == Roster(P.uuid)
              IN  /\ Len(P.members) = 2
                  /\ P.members[1].uuid = P.members[2].uuid
                  /\ C.uuid = 1 /\ P.uuid = 1
    /\ \E t \in 1..Len(Roster(2)) :
          Roster(2)[t].companyId = 2 /\ Roster(2)[t].id # 0

\* the upstream with every per-project request succeeding
Heal(srv) == [srv EXCEPT !.failAt = 0]

Healed(u) ==
    [u EXCEPT !.projectCompanies = [p \in ProjectIds |-> Heal(u.projectCompanies[p])],
              !.projectUsers     = [p \in ProjectIds |-> Heal(u.projectUsers[p])]]

\* the request of project p that fails is one the fetcher makes
CompaniesRequestFails(p) ==
    /\ up.projectCompanies[p].failAt # 0
    /\ up.projectCompanies[p].failAt
          <= fetchProjectCompanies(Heal(up.projectCompanies[p])).requests

UsersRequestFails(p) ==
    /\ up.projectUsers[p].failAt # 0
    /\ up.projectUsers[p].failAt
          <= fetchProjectUsers(Heal(up.projectUsers[p])).requests

\* every project but p has the associations of the build without failure:
\* its projectsCache entry is the same, and so is every company's list of
\* the projects other than p
OthersUnaffected(p, healed) ==
    /\ Len(out.projectsCache) = Len(healed.projectsCache)
    /\ \A q \in 1..Len(out.projectsCache) :
          out.projectsCache[q].uuid # p =>
              out.projectsCache[q] = healed.projectsCache[q]
    /\ Len(out.companiesCache) = Len(healed.companiesCache)
    /\ \A c \in 1..Len(out.companiesCache) :
          /\ out.companiesCache[c].uuid = healed.companiesCache[c].uuid
          /\ SelectSeq(out.companiesCache[c].projects, LAMBDA r : r.uuid # p)
             = SelectSeq(healed.companiesCache[c].projects, LAMBDA r : r.uuid # p)

\* the ids of the items a fetcher received on the pages before page k
IdsBefore(srv, k, lim) ==
    { x.id : x \in Range(Take(srv.items, (k - 1) * lim)) } \ {0}

C10_StaleIffAbsentOrOld ==
    phase = "evaluated" =>
        (stale <=> (timestamp = Absent \/ now - timestamp > 2 * 60 * 60 * 1000))

\* ------------------------------------------------------------------------
\* Claims about the order of the caches
\* ------------------------------------------------------------------------

LowerName(r) == toLowerCase(r.name)

\* a comes before b, or is b, in the order of the character codes
NameLeq(a, b) ==
    \/ \E k \in 1..Min2(Len(a), Len(b)) :
          a[k] < b[k] /\ \A h \in 1..(k - 1) : a[h] = b[h]
    \/ Len(a) <= Len(b) /\ \A h \in 1..Len(a) : a[h] = b[h]

AscendingByName(s) ==
    \A i, j \in 1..Len(s) : i < j => NameLeq(LowerName(s[i]), LowerName(s[j]))

\* the records of a cache list whose lower-cased name is n, as <<id, name>>
OutClass(s, n) ==
    Map(SelectSeq(s, LAMBDA r : LowerName(r) = n), LAMBDA r : <<r.uuid, r.name>>)

\* the fetched entities with an id whose lower-cased name is n, as <<id, name>>
InClass(s, n) ==
    Map(SelectSeq(s, LAMBDA e : e.id # 0 /\ LowerName(e) = n),
        LAMBDA e : <<e.id, e.name>>)

\* the records of equal lower-cased name are the fetched entities of that
\* name, in the order of the fetch
TiesKeepOrder(outs, ins) ==
    \A n \in { LowerName(e) : e \in Range(ins) } \cup { LowerName(r) : r \in Range(outs) } :
        OutClass(outs, n) = InClass(ins, n)

\* C13: in every output of buildCompaniesCache, companiesCache and
\* projectsCache are each ascending by lower-cased name, and the entries of
\* equal lower-cased name keep the order in which they were fetched.
C13_TopLevelOrdering ==
    (phase = "built" /\ out.ok) =>
        /\ AscendingByName(out.companiesCache)
        /\ AscendingByName(out.projectsCache)
        /\ TiesKeepOrder(out.companiesCache, CompaniesFetchAll(up.companies).items)
        /\ TiesKeepOrder(out.projectsCache, ProjectsFetchAll(up.projects).items)

\* companies fetched as charlie, Charlie, bravo come out as bravo, charlie,
\* Charlie: the case is ignored and the two of equal name keep their order
C13_Witness ==
    /\ phase = "built"
    /\ out.ok
    /\ up = TopUp(<<CharlieLower, Charlie, BravoLower>>)
    /\ Map(out.companiesCache, LAMBDA r : <<r.uuid, r.name>>)
         = <<<<3, BravoLower>>, <<1, CharlieLower>>, <<2, Charlie>>>>
    /\ Map(out.projectsCache, LAMBDA r : <<r.uuid, r.name>>)
         = <<<<1, BravoLower>>, <<3, CharlieLower>>, <<2, Charlie>>>>

\* the users of a list that have an id and whose lower-cased display name is
\* n, as <<id, display name>>
UserClass(s, n) ==
    Map(SelectSeq(s, LAMBDA u : u.id # 0 /\ toLowerCase(displayUserName(u)) = n),
        LAMBDA u : <<u.id, displayUserName(u)>>)

\* the member records of equal lower-cased name are the given users of that
\* name, in their order
MembersKeepOrder(records, users) ==
    \A n \in { LowerName(r) : r \in Range(records) } :
        OutClass(records, n) = UserClass(users, n)

\* neighbours of equal lower-cased name satisfy before(_, _)
TiesOrdered(s, before(_, _)) ==
    \A i \in 1..(Len(s) - 1) :
        LowerName(s[i]) = LowerName(s[i + 1]) => before(s[i], s[i + 1])

\* the place of the first x in s (0: there is none)
FirstIndex(s, x) ==
    IF \E i \in 1..Len(s) : s[i] = x
    THEN CHOOSE i \in 1..Len(s) : s[i] = x /\ \A j \in 1..(i - 1) : s[j] # x
    ELSE 0

Ids(s) == [i \in 1..Len(s) |-> s[i].id]

\* the company ids the mapping loop is served, project after project in the
\* order of the projects list, each response in its own order
RECURSIVE ServedCompanyIds(_)
ServedCompanyIds(projects) ==
    IF projects = <<>> THEN <<>>
    ELSE (IF Head(projects).id = 0 THEN <<>>
          ELSE Ids(fetchProjectCompanies(up.projectCompanies[Head(projects).id]).items))
         \o ServedCompanyIds(Tail(projects))

\* the users the cache builder holds for company cid
UsersOf(cid) ==
    SelectSeq(UsersFetchAll(up.users).items,
              LAMBDA u : OrId(u.company_id, u.companyId) = cid)

\* the members of project pid that satisfy keep(_), in roster order
RosterOf(pid, keep(_)) ==
    SelectSeq(fetchProjectUsers(up.projectUsers[pid]).items, keep)

\* the lists of the two caches that hold users are ascending by lower-cased
\* name, with ties in fetch order
UserListsOrdered ==
    /\ \A i \in 1..Len(out.companiesCache) :
          LET ce == out.companiesCache[i] IN
          /\ AscendingByName(ce.users)
          /\ MembersKeepOrder(ce.users, UsersOf(ce.uuid))
          /\ \A k \in 1..Len(ce.projects) :
                LET pr == ce.projects[k] IN
                /\ AscendingByName(pr.members)
                /\ MembersKeepOrder(pr.members,
                                    RosterOf(pr.uuid, LAMBDA pu : pu.companyId = ce.uuid))
    /\ \A i \in 1..Len(out.projectsCache) :
          LET pe == out.projectsCache[i] IN
          /\ AscendingByName(pe.members)
          /\ MembersKeepOrder(pe.members, RosterOf(pe.uuid, LAMBDA pu : TRUE))

\* the lists of projects under a company and of companies under a project
\* are ascending by lower-cased name
EntityListsAscending ==
    /\ \A i \in 1..Len(out.companiesCache) : AscendingByName(out.companiesCache[i].projects)
    /\ \A i \in 1..Len(out.projectsCache) : AscendingByName(out.projectsCache[i].companies)

\* C14 as stated: every nested list is ascending by lower-cased name with
\* ties in fetch order; two projects of one company with equal names appear in
\* the order the projects were fetched, two companies of one project with
\* equal names in the order the companies were fetched (from the account or
\* for that project).
C14_NestedTiesKeepFetchOrder ==
    (phase = "built" /\ out.ok) =>
        LET projectIds == Ids(ProjectsFetchAll(up.projects).items)
            companyIds == Ids(CompaniesFetchAll(up.companies).items)
            response(pid) == Ids(fetchProjectCompanies(up.projectCompanies[pid]).items)
            inOrder(s, a, b) == FirstIndex(s, a) # 0 /\ FirstIndex(s, a) < FirstIndex(s, b)
        IN  /\ UserListsOrdered
            /\ EntityListsAscending
            /\ \A i \in 1..Len(out.companiesCache) :
                  TiesOrdered(out.companiesCache[i].projects,
                              LAMBDA a, b : inOrder(projectIds, a.uuid, b.uuid))
            /\ \A i \in 1..Len(out.projectsCache) :
                  TiesOrdered(out.projectsCache[i].companies,
                              LAMBDA a, b :
                                  \/ inOrder(companyIds, a.uuid, b.uuid)
                                  \/ inOrder(response(out.projectsCache[i].uuid),
                                             a.uuid, b.uuid))

\* C14, as the code orders the lists: every nested list is ascending by
\* lower-cased name; users and members of equal name keep fetch order; two
\* projects of one company with equal names appear in ascending order of
\* their ids; two companies of one project with equal names appear in the
\* order in which the mapping loop first met them, over all projects.
C14_NestedOrdering ==
    (phase = "built" /\ out.ok) =>
        With(ServedCompanyIds(ProjectsFetchAll(up.projects).items),
             LAMBDA served :
                /\ UserListsOrdered
                /\ EntityListsAscending
                /\ \A i \in 1..Len(out.companiesCache) :
                      TiesOrdered(out.companiesCache[i].projects,
                                  LAMBDA a, b : a.uuid < b.uuid)
                /\ \A i \in 1..Len(out.projectsCache) :
                      TiesOrdered(out.projectsCache[i].companies,
                                  LAMBDA a, b :
                                      /\ FirstIndex(served, a.uuid) # 0
                                      /\ FirstIndex(served, a.uuid)
                                           < FirstIndex(served, b.uuid)))

\* projects fetched 2, 1 and companies fetched 1, 2, all of one name; project
\* 2 names company 2, project 1 names companies 1, 2: company 2 lists its
\* projects 1, 2 and project 1 lists its companies 2, 1
C14_Witness ==
    /\ phase = "built"
    /\ out.ok
    /\ Ids(up.projects.items) = <<2, 1>>
    /\ Ids(up.companies.items) = <<1, 2>>
    /\ Ids(up.projectCompanies[1].items) = <<1, 2>>
    /\ Ids(up.projectCompanies[2].items) = <<2>>
    /\ \E i \in 1..Len(out.companiesCache) :
          /\ out.companiesCache[i].uuid = 2
          /\ Map(out.companiesCache[i].projects, LAMBDA r : <<r.uuid, LowerName(r)>>)
               = <<<<1, AlphaLower>>, <<2, AlphaLower>>>>
    /\ \E i \in 1..Len(out.projectsCache) :
          /\ out.projectsCache[i].uuid = 1
          /\ Map(out.projectsCache[i].companies, LAMBDA r : <<r.uuid, LowerName(r)>>)
               = <<<<2, AlphaLower>>, <<1, AlphaLower>>>>

\* ------------------------------------------------------------------------
\* Claims about repeated builds, progress and requests
\* ------------------------------------------------------------------------

\* the invocations that hold assembled caches
BuiltPcs == {"store", "stored", "resolved"}

CacheKeys ==
    {"companiesCache", "companiesCacheTimestamp", "projectsCache", "projectsCacheTimestamp"}

StepRank(step) ==
    CASE step = "companies"  -> 1
      [] step = "users"      -> 2
      [] step = "projects"   -> 3
      [] step = "mapping"    -> 4
      [] step = "assembling" -> 5
      [] step = "done"       -> 6

MilestoneSteps == {"companies", "users", "projects", "mapping", "assembling", "done"}

\* the messages follow the order of the milestones, and the messages of the
\* mapping step carry strictly increasing indexes (0 for the message that
\* opens the step), each message compared with the next
ProgressInOrder(p) ==
    \A a \in 1..(Len(p) - 1) :
        /\ StepRank(p[a].step) <= StepRank(p[a + 1].step)
        /\ (p[a].step = "mapping" /\ p[a + 1].step = "mapping") => p[a].n < p[a + 1].n

Dones(p) == { a \in 1..Len(p) : p[a].step = "done" }

\* C16: the progress messages of a build are sent in the order companies,
\* users, projects, mapping (the index N of "[N/M]" strictly increasing, M the
\* number of projects fetched), assembling, done; a successful build has sent
\* each of them, "done" once and last, and it sends "done" when its storage
\* write has completed (the storage holds its caches and its timestamp); an
\* invocation that has not resolved, a failed one included, has sent no "done".
C16_ProgressOrdering ==
    [][\A i \in Calls :
          LET p == calls'[i].progress IN
          /\ ProgressInOrder(p)
          /\ calls'[i].pc \in BuildingPcs =>
                \A a \in 1..Len(p) : p[a].n > 0 => p[a].of = Len(calls'[i].projects)
          /\ calls'[i].pc = "resolved" =>
                /\ { p[a].step : a \in 1..Len(p) } = MilestoneSteps
                /\ Dones(p) = {Len(p)}
                /\ \A a \in 1..Len(p) : p[a].n > 0 => p[a].of = Len(calls'[i].fetched[3].items)
          /\ calls'[i].pc # "resolved" => Dones(p) = {}
          /\ (Dones(calls[i].progress) = {} /\ Dones(p) # {}) =>
                /\ calls[i].pc = "stored"
                /\ local.companiesCache = Stored(calls[i].built.companiesCache)
                /\ local.projectsCache = Stored(calls[i].built.projectsCache)
                /\ local.companiesCacheTimestamp = calls[i].storeTime
                /\ local.projectsCacheTimestamp = calls[i].storeTime]_vars

\* a build of two projects has resolved after this sequence of messages
C16_Witness ==
    \E i \in Calls :
        /\ calls[i].pc = "resolved"
        /\ local.companiesCache = Stored(calls[i].built.companiesCache)
        /\ Map(calls[i].progress, LAMBDA e : <<e.step, e.n, e.of>>)
             = << <<"companies", 0, 0>>, <<"companies", 0, 0>>,
                  <<"users", 0, 0>>, <<"users", 0, 0>>,
                  <<"projects", 0, 0>>, <<"projects", 0, 0>>,
                  <<"mapping", 0, 0>>, <<"mapping", 1, 2>>, <<"mapping", 2, 2>>,
                  <<"assembling", 0, 0>>, <<"assembling", 0, 0>>,
                  <<"done", 0, 0>> >>

\* the errors of the guard and of the awaited operations of a build
BuildErrors == FatalErrors \cup {InProgressError}

\* C17: the delivery of the progress messages does not affect the build.
\* Two builds, one with a listener attached and one whose every send is
\* rejected for want of a listener, that were returned the same arrays by the
\* fetchers have sent the same messages and have assembled, returned and
\* persisted the same caches; no invocation is rejected for a send (the error
\* of a rejected invocation is that of the guard or of an awaited operation);
\* and every build that ends, with or without a listener, leaves the flag
\* cleared.
C17_ProgressDeliveryIsInert ==
    [][/\ \A i, j \in Calls :
             (/\ calls'[i].pc \in BuiltPcs
              /\ calls'[j].pc \in BuiltPcs
              /\ calls'[i].listener /\ ~calls'[j].listener
              /\ calls'[i].fetched = calls'[j].fetched)
             => /\ calls'[i].built = calls'[j].built
                /\ calls'[j].pc = "resolved" =>
                      SubSeq(calls'[j].progress, 1, Len(calls'[i].progress))
                        = calls'[i].progress
       /\ \A i \in Calls :
             /\ calls'[i].pc = "rejected" => calls'[i].result \in BuildErrors
             /\ (Building(i) /\ calls'[i].pc \in {"resolved", "rejected"}) =>
                   ~cacheBuilding'
             /\ (calls[i].pc = "store" /\ calls'[i].pc = "stored") =>
                   /\ local'.companiesCache = Stored(calls[i].built.companiesCache)
                   /\ local'.projectsCache = Stored(calls[i].built.projectsCache)]_vars

\* a build started from the popup and a later build started by the alarm,
\* with no listener, were served alike: both resolved with the same caches
\* after the same messages, and the flag is cleared
C17_Witness ==
    \E i, j \in Calls :
        /\ calls[i].pc = "resolved" /\ calls[i].listener
        /\ calls[j].pc = "resolved" /\ ~calls[j].listener
        /\ calls[i].fetched = calls[j].fetched
        /\ Len(calls[j].fetched) > 3
        /\ calls[i].built = calls[j].built
        /\ calls[i].progress = calls[j].progress
        /\ local.companiesCache = Stored(calls[j].built.companiesCache)
        /\ ~cacheBuilding

\* ------------------------------------------------------------------------
\* Claims about the fetchers
\* ------------------------------------------------------------------------

\* the page request that srv fails is made: the pages before it are full
FailureMet(srv, lim) ==
    /\ srv.failAt # 0
    /\ (srv.failAt - 1) * lim <= Len(srv.items)

\* C18: from a server that answers every page request with the slice of its
\* collection, each of the five fetchers returns the items of the collection,
\* each once and in upstream order, and makes a request only if every page
\* before it was full: none after a page of fewer items than the limit or of
\* no item, the collection being an exact multiple of the limit or not.
C18_PaginationResult ==
    (phase = "fetched" /\ ServerFor(out.fetcher).failAt = 0) =>
        LET srv == ServerFor(out.fetcher) IN
        /\ out.ok
        /\ out.items = srv.items
        /\ out.requests >= 1
        /\ (out.requests - 1) * LimitOf(out.fetcher) <= Len(srv.items)

\* the projects fetcher has read a collection of two full pages: it has made
\* three requests, the third answered with no item
C18_Witness ==
    /\ phase = "fetched"
    /\ out.fetcher = "projects"
    /\ up.projects.failAt = 0
    /\ Len(up.projects.items) = 2 * ProjectsLimit
    /\ out.items = up.projects.items
    /\ out.requests = 3

AccountCalls(requests) ==
    Map(SelectSeq(requests, LAMBDA r : r.pid = 0), LAMBDA r : r.fetcher)

AccountOrder == <<"companies", "users", "projects">>

\* the states in which a trigger leaves the record it takes
TriggeredPcs == {"requested", "alarm", "skipped"}

\* C20: within one build each account-level fetcher is called at most once,
\* in the order companies, users, projects, and the per-project fetchers only
\* after the three; a build whose account-level fetch fails rejects in that
\* step with the calls it had made, the failing one last, while no other
\* invocation moves; and a rejected invocation makes no further call: its
\* record changes only when a new trigger takes it.
C20_FailFast ==
    [][\A i \in Calls :
          LET account == AccountCalls(calls'[i].requests) IN
          /\ Len(account) <= Len(AccountOrder)
          /\ account = SubSeq(AccountOrder, 1, Len(account))
          /\ \A a \in 1..Len(calls'[i].requests) :
                calls'[i].requests[a].pid # 0 => a > Len(AccountOrder)
          /\ (calls[i].pc \in AccountFetchers /\ calls'[i].pc = "rejected") =>
                /\ calls'[i].requests = calls[i].requests
                /\ calls[i].requests[Len(calls[i].requests)]
                     = Request(calls[i].pc, 0)
                /\ \A j \in Calls \ {i} : calls'[j] = calls[j]
          /\ (calls[i].pc = "rejected" /\ calls'[i] # calls[i]) =>
                /\ calls'[i].pc \in TriggeredPcs
                /\ calls'[i].requests = <<>>]_vars

\* the users fetch of a build was rejected: the build has called the
\* companies and the users fetcher and nothing else, and no build is running
C20_Witness ==
    \E i \in Calls :
        /\ calls[i].pc = "rejected"
        /\ calls[i].result = FetchError(<<"fetch", "users">>)
        /\ calls[i].requests = <<Request("companies", 0), Request("users", 0)>>
        /\ ~cacheBuilding
        /\ \A j \in Calls : ~Building(j)

\* ------------------------------------------------------------------------
\* Claims about configuration and the token
\* ------------------------------------------------------------------------

\* the invocation is about to find the client id or the secret missing
CredentialsMissing(c) ==
    /\ c.pc = "get2LeggedToken"
    /\ (local.apsClientId = "" \/ local.apsClientSecret = "")

\* the invocation is about to find no account id in the session
AccountIdMissing(c) ==
    /\ c.pc = "accountId"
    /\ session.accAccountId = 0

ConfigurationErrors ==
    {"APS credentials not configured. Right-click the extension icon > Options to set them up.",
     "No account ID configured."}

StoredTokenValid ==
    /\ session.accBearerToken # 0
    /\ session.tokenExpiresAt # 0
    /\ now <= session.tokenExpiresAt - 5 * 60 * 1000

\* the awaits of a build from the first fetcher call on
FetchingPcs == {"companies", "users", "projects", "mapping", "store", "stored"}

\* C22: ensureToken returns the stored token, without a token request and
\* without a write, exactly when a token and an expiry are stored and the
\* clock is at most at the expiry less five minutes; otherwise it goes on to
\* get2LeggedToken, which alone issues the token request and then stores the
\* token, its expiry and the account id in one write of the session storage.
\* A build enters ensureToken once, when it starts, and every fetcher call it
\* makes carries the token that call returned.
C22_TokenRefreshMargin ==
    [][/\ \A i \in Calls :
             LET c == calls[i]
                 d == calls'[i]
             IN
             /\ (c.pc = "ensureToken" /\ d # c) =>
                   /\ session' = session
                   /\ IF StoredTokenValid
                      THEN d.pc = "accountId" /\ d.token = session.accBearerToken
                      ELSE d.pc = "get2LeggedToken"
             /\ (d.pc = "tokenRequest" /\ c.pc # "tokenRequest") =>
                   c.pc = "get2LeggedToken"
             /\ (c.pc = "tokenStore" /\ d # c) =>
                   /\ d.pc = "accountId" /\ d.token = c.newToken
                   /\ session' = [accBearerToken |-> c.newToken,
                                  tokenExpiresAt |-> c.newExpiresAt,
                                  accAccountId   |-> c.cfgAccountId]
             /\ (d.pc = "ensureToken" /\ c.pc # "ensureToken") =>
                   c.pc \in {"requested", "alarm"}
             /\ (d.pc = "get2LeggedToken" /\ c.pc # "get2LeggedToken") =>
                   c.pc = "ensureToken"
             /\ d.pc \in FetchingPcs =>
                   /\ Len(d.tokens) = Len(d.requests)
                   /\ \A k \in 1..Len(d.tokens) : d.tokens[k] = d.token
                   /\ c.pc \in FetchingPcs => d.token = c.token
       /\ session' # session =>
             /\ session'.accBearerToken # 0 /\ session'.tokenExpiresAt # 0
             /\ \/ \E i \in Calls : calls[i].pc = "tokenStore" /\ calls'[i] # calls[i]
                \/ prefetch.pc = "store" /\ prefetch' # prefetch]_vars

\* a build was handed the stored token at the last moment of its validity,
\* five minutes before its expiry, and has made all its fetcher calls with it
C22_Witness ==
    \E i \in Calls :
        /\ calls[i].pc = "store"
        /\ now = session.tokenExpiresAt - TokenMarginMs
        /\ calls[i].token = session.accBearerToken
        /\ Len(calls[i].tokens) >= 3
        /\ \A k \in 1..Len(calls[i].tokens) : calls[i].tokens[k] = calls[i].token

\* C29: whenever an invocation of triggerCacheBuild goes on to
\* buildCompaniesCache, the account id it passes is the apsAccountId that the
\* local storage holds at that moment.
C29_BuildUsesConfiguredAccount ==
    [][\A i \in Calls :
          (calls[i].pc = "accountId" /\ calls'[i].pc = "companies") =>
              calls'[i].accountId = local.apsAccountId]_vars

\* ------------------------------------------------------------------------
\* Claims about the content of the caches
\* ------------------------------------------------------------------------

\* what the three account-level fetchers return to a build
FetchedCompanies == CompaniesFetchAll(up.companies).items

FetchedUsers == UsersFetchAll(up.users).items

FetchedProjects == ProjectsFetchAll(up.projects).items

\* how often id occurs among the id fields (or uuid fields) of a list
IdCount(s, id) == Cardinality({ k \in 1..Len(s) : s[k].id = id })

UuidCount(s, id) == Cardinality({ k \in 1..Len(s) : s[k].uuid = id })

IdSet(s) == { s[k].id : k \in 1..Len(s) }

NoFalsyUuid(records) == \A k \in 1..Len(records) : records[k].uuid # 0

\* C23: in the caches of a build no top-level entry and no nested user,
\* member, project or company record has a falsy uuid; the mapping loop
\* fetches for exactly the projects that have an id; and every fetched
\* company, and every fetched project, that has an id has as many top-level
\* entries as it occurs in the fetched collection.
C23_NoFalsyIds ==
    (phase = "built" /\ out.ok) =>
        /\ NoFalsyUuid(out.companiesCache)
        /\ NoFalsyUuid(out.projectsCache)
        /\ \A k \in 1..Len(out.companiesCache) :
              /\ NoFalsyUuid(out.companiesCache[k].users)
              /\ NoFalsyUuid(out.companiesCache[k].projects)
              /\ \A j \in 1..Len(out.companiesCache[k].projects) :
                    NoFalsyUuid(out.companiesCache[k].projects[j].members)
        /\ \A k \in 1..Len(out.projectsCache) :
              /\ NoFalsyUuid(out.projectsCache[k].members)
              /\ NoFalsyUuid(out.projectsCache[k].companies)
        /\ DOMAIN MapProjects(EmptyMaps, FetchedProjects, up).projectUsersCache
             = IdSet(FetchedProjects) \ {0}
        /\ \A id \in IdSet(FetchedCompanies) \ {0} :
              UuidCount(out.companiesCache, id) = IdCount(FetchedCompanies, id)
        /\ \A id \in IdSet(FetchedProjects) \ {0} :
              UuidCount(out.projectsCache, id) = IdCount(FetchedProjects, id)
        /\ Len(out.companiesCache)
             = Len(SelectSeq(FetchedCompanies, LAMBDA comp : comp.id # 0))
        /\ Len(out.projectsCache)
             = Len(SelectSeq(FetchedProjects, LAMBDA project : project.id # 0))

\* a build over a company without an id beside one with an id, a project
\* without an id beside one with an id, and a project-companies response
\* naming a company without an id: each cache has its one entry
C23_Witness ==
    /\ phase = "built" /\ out.ok
    /\ 0 \in IdSet(FetchedCompanies) /\ 0 \in IdSet(FetchedProjects)
    /\ \E p \in IdSet(FetchedProjects) \ {0} :
          0 \in IdSet(fetchProjectCompanies(up.projectCompanies[p]).items)
    /\ Len(out.companiesCache) = 1 /\ Len(out.projectsCache) = 1

\* the company id of a fetched account user: company_id || companyId
CompanyIdOf(u) == OrId(u.company_id, u.companyId)

\* how many of the fetched account users of company cid have the id
UsersWith(cid, id) ==
    Cardinality({ k \in 1..Len(FetchedUsers) :
                    /\ CompanyIdOf(FetchedUsers[k]) = cid
                    /\ FetchedUsers[k].id = id })

\* C24, as stated. The users of every entry C of companiesCache are the
\* fetched account users whose company id is C.uuid, one record for each and
\* no other record.
C24_FullRoster ==
    (phase = "built" /\ out.ok) =>
        \A c \in 1..Len(out.companiesCache) :
            LET C == out.companiesCache[c] IN
            \A id \in EntityIds : UuidCount(C.users, id) = UsersWith(C.uuid, id)

\* C24, amended. The users of every entry C of companiesCache are the fetched
\* account users whose company id is C.uuid and who have an id, one record
\* for each and no other record, whether or not C has projects and whether
\* or not the user is a member of a project; users without an id are left out.
C24_FullRosterOfUsersWithId ==
    (phase = "built" /\ out.ok) =>
        \A c \in 1..Len(out.companiesCache) :
            LET C == out.companiesCache[c] IN
            /\ NoFalsyUuid(C.users)
            /\ \A id \in EntityIds \ {0} :
                  UuidCount(C.users, id) = UsersWith(C.uuid, id)
            /\ Len(C.users)
                 = Len(SelectSeq(FetchedUsers,
                                 LAMBDA u : CompanyIdOf(u) = C.uuid /\ u.id # 0))

\* a company without projects has two account users, one of them without an
\* id and neither a member of a project: its entry lists the other one
C24_Witness ==
    /\ phase = "built" /\ out.ok
    /\ \E c \in 1..Len(out.companiesCache) :
          LET C == out.companiesCache[c] IN
          /\ C.projects = <<>>
          /\ Len(C.users) = 1
          /\ UsersWith(C.uuid, 0) = 1
          /\ \A p \in IdSet(FetchedProjects) \ {0} :
                \A k \in 1..Len(Roster(p)) : Roster(p)[k].id # C.users[1].uuid

\* the member records of the two trees
CompanyTreeMembers ==
    UNION { Range(out.companiesCache[c].users)
            \cup UNION { Range(out.companiesCache[c].projects[p].members) :
                           p \in 1..Len(out.companiesCache[c].projects) } :
            c \in 1..Len(out.companiesCache) }

ProjectTreeMembers ==
    UNION { Range(out.projectsCache[p].members) : p \in 1..Len(out.projectsCache) }

\* the fields of the member records
MemberShapes ==
    /\ \A r \in CompanyTreeMembers : DOMAIN r = {"name", "uuid", "email"}
    /\ \A r \in ProjectTreeMembers : DOMAIN r = {"name", "uuid", "email", "companyId"}

\* the value stored for a field: the raw value, or the empty one when the
\* raw entity does not carry the field
StoredText(raw, field) == IF field \in DOMAIN raw THEN raw[field] ELSE ""

StoredName(raw) == IF "name" \in DOMAIN raw THEN raw.name ELSE <<>>

StoredId(raw, field) == IF field \in DOMAIN raw THEN raw[field] ELSE 0

\* every record of the caches holds the stored values of the entity with its
\* id (the ids of a list being distinct)
DefaultsHold ==
    /\ \A c \in 1..Len(out.companiesCache) :
          LET C == out.companiesCache[c] IN
          /\ \E k \in 1..Len(FetchedCompanies) :
                /\ FetchedCompanies[k].id = C.uuid
                /\ C.name = StoredName(FetchedCompanies[k])
          /\ \A u \in 1..Len(C.users) :
                \E k \in 1..Len(FetchedUsers) :
                   /\ FetchedUsers[k].id = C.users[u].uuid
                   /\ C.users[u].name = StoredName(FetchedUsers[k])
                   /\ C.users[u].email = StoredText(FetchedUsers[k], "email")
          /\ \A p \in 1..Len(C.projects) :
                LET P == C.projects[p] IN
                /\ \E k \in 1..Len(FetchedProjects) :
                      /\ FetchedProjects[k].id = P.uuid
                      /\ P.name = StoredName(FetchedProjects[k])
                      /\ P.platform = StoredText(FetchedProjects[k], "platform")
                /\ \A r \in 1..Len(P.members) :
                      \E k \in 1..Len(Roster(P.uuid)) :
                         /\ Roster(P.uuid)[k].id = P.members[r].uuid
                         /\ P.members[r].name = StoredName(Roster(P.uuid)[k])
                         /\ P.members[r].email = StoredText(Roster(P.uuid)[k], "email")
    /\ \A p \in 1..Len(out.projectsCache) :
          LET P == out.projectsCache[p] IN
          /\ \E k \in 1..Len(FetchedProjects) :
                /\ FetchedProjects[k].id = P.uuid
                /\ P.name = StoredName(FetchedProjects[k])
                /\ P.platform = StoredText(FetchedProjects[k], "platform")
          /\ \A r \in 1..Len(P.members) :
                \E k \in 1..Len(Roster(P.uuid)) :
                   /\ Roster(P.uuid)[k].id = P.members[r].uuid
                   /\ P.members[r].name = StoredName(Roster(P.uuid)[k])
                   /\ P.members[r].email = StoredText(Roster(P.uuid)[k], "email")
                   /\ P.members[r].companyId = StoredId(Roster(P.uuid)[k], "companyId")

\* the members of every projectsCache entry are the whole roster fetched for
\* the project
WholeRosterListed ==
    \A p \in 1..Len(out.projectsCache) :
        LET P == out.projectsCache[p] IN
        /\ Len(P.members) = Len(Roster(P.uuid))
        /\ \A id \in EntityIds : UuidCount(P.members, id) = IdCount(Roster(P.uuid), id)

\* ... are the roster members that have an id
RosterWithIdListed ==
    \A p \in 1..Len(out.projectsCache) :
        LET P == out.projectsCache[p] IN
        /\ NoFalsyUuid(P.members)
        /\ \A id \in EntityIds \ {0} :
              UuidCount(P.members, id) = IdCount(Roster(P.uuid), id)

\* the arrays the specification gives for its scenario; "c1", "u1" and "p1"
\* are the id 1 of the companies, the users and the projects
ScenarioCompaniesCache ==
    <<[name |-> Acme, uuid |-> 1,
       users |-> <<[name |-> Jo, uuid |-> 1, email |-> ""]>>,
       projects |-> <<[name |-> Tower, uuid |-> 1, platform |-> "",
                       members |-> <<[name |-> Jo, uuid |-> 1, email |-> ""]>>]>>]>>

ScenarioProjectsCache ==
    <<[name |-> Tower, uuid |-> 1, platform |-> "",
       members |-> <<[name |-> Jo, uuid |-> 1, email |-> "", companyId |-> 1]>>,
       companies |-> <<[name |-> Acme, uuid |-> 1]>>]>>

\* the same arrays with the name the member of the scenario, which carries
\* no name, is given
NamelessMember(r) == [r EXCEPT !.name = <<>>]

BuiltCompaniesCache ==
    [ScenarioCompaniesCache EXCEPT ![1].projects[1].members[1] = NamelessMember(@)]

BuiltProjectsCache ==
    [ScenarioProjectsCache EXCEPT ![1].members[1] = NamelessMember(@)]

\* C25, as stated. Member records of the company-rooted tree carry name, uuid
\* and email, those of the project-rooted tree companyId as well; a project's
\* members are the whole roster fetched for it; absent fields are stored as
\* the empty string; and the scenario of the specification yields the two
\* arrays given there.
C25_RecordShapesAsStated ==
    (phase = "built" /\ out.ok) =>
        /\ MemberShapes
        /\ WholeRosterListed
        /\ DefaultsHold
        /\ up = UpScenario =>
              /\ out.companiesCache = ScenarioCompaniesCache
              /\ out.projectsCache = ScenarioProjectsCache

\* C25, amended. The same, with the members of a project being the roster
\* members that have an id, and with the scenario yielding the arrays given,
\* but for the name of the member records of project p1, which is empty
\* because the member of the scenario carries no name.
C25_RecordShapes ==
    (phase = "built" /\ out.ok) =>
        /\ MemberShapes
        /\ RosterWithIdListed
        /\ DefaultsHold
        /\ up = UpScenario =>
              /\ out.companiesCache = BuiltCompaniesCache
              /\ out.projectsCache = BuiltProjectsCache

\* the scenario has been built: the user record of company c1 is named Jo,
\* the member records of project p1 are named ""
C25_Witness ==
    /\ phase = "built" /\ out.ok
    /\ up = UpScenario
    /\ out.companiesCache[1].users[1].name = Jo
    /\ out.companiesCache[1].projects[1].members[1].name = <<>>
    /\ out.projectsCache[1].members[1].name = <<>>
    /\ out.projectsCache[1].members[1].companyId = 1

\* ------------------------------------------------------------------------
\* Claims about displayUserName
\* ------------------------------------------------------------------------

\* t is s without its leading and trailing spaces
IsTrimOf(t, s) ==
    \E i \in 0..Len(s) : \E j \in i..Len(s) :
        /\ t = SubSeq(s, i + 1, j)
        /\ \A k \in (1..i) \cup ((j + 1)..Len(s)) : s[k] = SPACE
        /\ t = <<>> \/ (t[1] # SPACE /\ t[Len(t)] # SPACE)

Infixes(s) == { SubSeq(s, i + 1, j) : i \in 0..Len(s), j \in 0..Len(s) }

Stripped(s) == CHOOSE t \in Infixes(s) : IsTrimOf(t, s)

\* a field of a user record, an absent one being empty
FieldOf(user, f) == IF f \in DOMAIN user THEN user[f] ELSE <<>>

\* the first name and the last name of a user record
FirstNameOf(user) ==
    IF FieldOf(user, "first_name") # <<>> THEN user.first_name ELSE FieldOf(user, "firstName")

LastNameOf(user) ==
    IF FieldOf(user, "last_name") # <<>> THEN user.last_name ELSE FieldOf(user, "lastName")

\* the text is a string
IsString(t) == t \in Seq(0..127)

\* every name, first name and last name of the user is empty or absent
AllNamesEmpty(user) == \A f \in NameFields : FieldOf(user, f) = <<>>

\* C26: for every user record displayUserName returns the trimmed name when
\* that is not empty, otherwise the trimmed first name and the trimmed last
\* name joined by one space and trimmed again; the result is always a
\* string, and it is the empty string when name, first name and last name
\* are all empty or absent.
C26_DisplayName ==
    phase = "named" =>
        LET name  == Stripped(FieldOf(out.user, "name"))
            first == Stripped(FirstNameOf(out.user))
            last  == Stripped(LastNameOf(out.user))
        IN  /\ IsString(out.displayName)
            /\ name # <<>> => out.displayName = name
            /\ name = <<>> =>
                   out.displayName = Stripped(first \o <<SPACE>> \o last)
            /\ AllNamesEmpty(out.user) => out.displayName = <<>>

\* a user whose name is only a space, with a first name and a last name
\* that both carry spaces around them, is displayed by the two joined
C26_Witness ==
    /\ phase = "named"
    /\ FieldOf(out.user, "name") = <<SPACE>>
    /\ FieldOf(out.user, "first_name") = <<SPACE>> \o TextA \o <<SPACE>>
    /\ FieldOf(out.user, "lastName") = <<SPACE>> \o TextA \o <<SPACE>>
    /\ "last_name" \notin DOMAIN out.user
    /\ out.displayName = TextA \o <<SPACE>> \o TextA

\* ------------------------------------------------------------------------
\* Claims about the association of companies and projects
\* ------------------------------------------------------------------------

\* the projects the build fetched, in fetch order
ProjectsFetchedBy(c) ==
    LET at == CHOOSE k \in 1..Len(c.fetched) : c.fetched[k].fetcher = "projects"
    IN  c.fetched[at].items

\* the calls of the per-project fetchers, in the order the build made them
ProjectCalls(c) == SelectSeq(c.requests, LAMBDA r : r.pid # 0)

\* the project-companies response of project pid names the company cid
ResponseNames(pid, cid) ==
    \E k \in 1..Len(up.projectCompanies[pid].items) :
        up.projectCompanies[pid].items[k].id = cid

\* how often the project pid is listed under the company entry
TimesListed(entry, pid) ==
    Cardinality({ k \in 1..Len(entry.projects) : entry.projects[k].uuid = pid })

\* C27: in one build, for every fetched project with an id exactly one call
\* of fetchProjectCompanies and one call of fetchProjectUsers are made, in
\* project fetch order and the companies call first; in the companies cache
\* built, the company C lists the project P iff P was fetched and its
\* project-companies response has a company with the id C.uuid, and it
\* lists P at most once.
C27_AssociationMapping ==
    calls[1].pc = "resolved" =>
        LET c        == calls[1]
            withId   == SelectSeq(ProjectsFetchedBy(c), LAMBDA p : p.id # 0)
            made     == ProjectCalls(c)
            tree     == c.built.companiesCache
        IN  /\ Len(made) = 2 * Len(withId)
            /\ \A k \in 1..Len(withId) :
                  /\ made[2 * k - 1] = Request("projectCompanies", withId[k].id)
                  /\ made[2 * k] = Request("projectUsers", withId[k].id)
            /\ \A e \in 1..Len(tree) : \A pid \in ProjectIds :
                  /\ TimesListed(tree[e], pid) >= 1
                        <=> /\ \E k \in 1..Len(withId) : withId[k].id = pid
                            /\ ResponseNames(pid, tree[e].uuid)
                  /\ TimesListed(tree[e], pid) <= 1
            /\ \A e \in 1..Len(tree) : \A k \in 1..Len(tree[e].projects) :
                  tree[e].projects[k].uuid \in ProjectIds

\* a build over the projects 2, 1 whose response for project 1 names
\* company 1 twice: four per-project calls, project 1 listed once
C27_Witness ==
    /\ calls[1].pc = "resolved"
    /\ Ids(ProjectsFetchedBy(calls[1])) = <<2, 1>>
    /\ Ids(up.projectCompanies[1].items) = <<1, 1>>
    /\ Len(ProjectCalls(calls[1])) = 4
    /\ \E e \in 1..Len(calls[1].built.companiesCache) :
          /\ calls[1].built.companiesCache[e].uuid = 1
          /\ TimesListed(calls[1].built.companiesCache[e], 1) = 1

\* ------------------------------------------------------------------------
\* Claims about empty and unresolved associations
\* ------------------------------------------------------------------------

\* what the two per-project fetchers return to the build for project pid
ReturnedCompanies(pid) == fetchProjectCompanies(up.projectCompanies[pid]).items

ReturnedMembers(pid) == fetchProjectUsers(up.projectUsers[pid]).items

\* the ids of the fetched projects whose project-companies response has an
\* entry with the company id cid
ProjectsNaming(cid) ==
    { pid \in IdSet(FetchedProjects) \ {0} : cid \in IdSet(ReturnedCompanies(pid)) }

\* the company ids the project's responses name that no fetched company has
Unresolved(pid) == (IdSet(ReturnedCompanies(pid)) \ {0}) \ IdSet(FetchedCompanies)

\* C28: the build completes; every company entry has the field projects,
\* empty for a company no response names; every project entry has the
\* field members, empty for a project whose roster came back empty; a
\* company id that a project's response names but no fetched company has
\* is listed once in the project's companies with the name "" and has no
\* entry in the companies cache.
C28_EmptyAndUnresolved ==
    phase = "built" =>
        /\ out.ok
        /\ \A k \in 1..Len(out.companiesCache) :
              LET entry == out.companiesCache[k] IN
              /\ "projects" \in DOMAIN entry
              /\ ProjectsNaming(entry.uuid) = {} => entry.projects = <<>>
        /\ \A k \in 1..Len(out.projectsCache) :
              LET entry == out.projectsCache[k] IN
              /\ "members" \in DOMAIN entry
              /\ ReturnedMembers(entry.uuid) = <<>> => entry.members = <<>>
              /\ \A cid \in Unresolved(entry.uuid) :
                    /\ Cardinality({ j \in 1..Len(entry.companies) :
                                        entry.companies[j].uuid = cid }) = 1
                    /\ \A j \in 1..Len(entry.companies) :
                          entry.companies[j].uuid = cid => entry.companies[j].name = <<>>
                    /\ UuidCount(out.companiesCache, cid) = 0

\* company 1 is fetched and named by no response; project 1 is fetched and
\* its response names company 2, which was not fetched
C28_Witness ==
    /\ phase = "built"
    /\ Ids(FetchedCompanies) = <<1>>
    /\ Ids(FetchedProjects) = <<1>>
    /\ Unresolved(1) = {2}
    /\ ProjectsNaming(1) = {}
    /\ out.companiesCache[1].projects = <<>>
    /\ out.projectsCache[1].companies = <<[name |-> <<>>, uuid |-> 2]>>

\* ------------------------------------------------------------------------
\* Claims about the per-project fetchers under failures
\* ------------------------------------------------------------------------

PerProjectFetchers == {"projectCompanies", "projectUsers"}

\* the server with the same failing page request, failing by a status
WithStatus(srv) == [srv EXCEPT !.failKind = "status"]

\* a page request after the first is made and throws
ThrowsOnLaterPage(srv, lim) ==
    /\ FailureMet(srv, lim)
    /\ srv.failKind = "throw"
    /\ srv.failAt > 1

\* the items of the pages the fetcher collected before the failing request
PagesBefore(srv, lim) == SubSeq(srv.items, 1, (srv.failAt - 1) * lim)

RECURSIVE ReceivedIn(_, _)
ReceivedIn(log, n) == IF n = 0 THEN 0 ELSE ReceivedIn(log, n - 1) + log[n].received

\* the loop has returned or thrown; the requests it made are at most
\* floor(N / limit) + 1 for its collection of N items, and each sent the
\* number of items received before it as its offset
LoopEndedWithinBound ==
    /\ phase = "returned"
    /\ Len(out.log) >= 1
    /\ Len(out.log)
         <= (Len(ServerFor(out.fetcher).items) \div LimitOf(out.fetcher)) + 1
    /\ \A k \in 1..Len(out.log) : out.log[k].offset = ReceivedIn(out.log, k - 1)

\* C31: each of the five pagination loops, run against a finite collection
\* whose page requests all settle (answered, refused or failed), ends after
\* finitely many requests: at most floor(N / limit) + 1 for a collection of
\* N items, the k-th request sending as its offset the number of items
\* received on the k - 1 pages before it.
C31_PaginationTerminates == (phase = "paging") ~> LoopEndedWithinBound

\* a loop over exactly two full pages has ended with its third request,
\* which sent the offset 2 * limit and received nothing
C31_Witness ==
    /\ phase = "returned"
    /\ out.fetcher = "projects"
    /\ ServerFor(out.fetcher).failAt = 0
    /\ Len(ServerFor(out.fetcher).items) = 2 * ProjectsLimit
    /\ out.log = <<Sent(0, ProjectsLimit), Sent(ProjectsLimit, ProjectsLimit),
                   Sent(2 * ProjectsLimit, 0)>>

\* ------------------------------------------------------------------------
\* Claims about the on-demand path of the content script
\* ------------------------------------------------------------------------

\* the projects of the company in the completed association map: every
\* fetched project whose settled call lists the company
ProjectsInCompletedMap(companyId) ==
    SelectSeq(ProjectsFetchAll(up.projects).items,
              LAMBDA p : companyId \in Range(MapEntry(p.id)))

\* the invocation has filtered the projects against the association map
HasFiltered(r) ==
    /\ fallback.renders[r].pc = "returned"
    /\ fallback.renders[r].shown \in {"projects", "empty"}

\* C32: under every interleaving of the click handlers, an invocation of
\* renderProjectsList on the on-demand path filters the projects against
\* the fully populated association map: the projects it reports for its
\* company are those of the completed map, never fewer.
C32_MapNeverUsedHalfBuilt ==
    \A r \in Renders :
        HasFiltered(r) =>
            fallback.renders[r].companyProjects
              = ProjectsInCompletedMap(fallback.renders[r].companyId)

\* the indices of all calls of fetchProjectCompanies that have not settled
InFlight == UNION { fallback.renders[r].inflight : r \in Renders }

\* the ids of the projects the content script fetched
FallbackProjectIds ==
    [k \in 1..Len(fallback.cachedProjects[1]) |-> fallback.cachedProjects[1][k].id]

\* the invocation that populates the map has returned
MapCompleted ==
    /\ fallback.cachedProjectCompanyMap # Undefined
    /\ \A r \in Renders : fallback.renders[r].pc # "batch"

\* C33: while an invocation of renderProjectsList populates the association
\* map, at most 10 calls of fetchProjectCompanies are in flight, all of one
\* batch, and every call of the batches before has settled; no project is
\* queried twice and, once the map is complete, every project once, in the
\* order of the list; a call whose token request failed has recorded an
\* empty company list for its project, and every other project has the
\* companies its call returned.
C33_BoundedBatches ==
    /\ Cardinality(InFlight) <= 10
    /\ Cardinality({ r \in Renders : fallback.renders[r].pc = "batch" }) <= 1
    /\ \A r \in Renders :
          fallback.renders[r].pc = "batch" =>
              LET c == fallback.renders[r]
                  m == fallback.cachedProjectCompanyMap[1]
              IN  /\ c.inflight # {}
                  /\ c.i % 10 = 0
                  /\ \A j \in c.inflight : j > c.i /\ j <= c.i + 10
                  /\ \A k \in 1..c.i : FallbackProjectIds[k] \in DOMAIN m
                  /\ \A k \in (c.i + 1)..Len(FallbackProjectIds) :
                        FallbackProjectIds[k] \in DOMAIN m
                        <=> (k <= c.i + 10 /\ k \notin c.inflight)
                  /\ fallback.queried = SubSeq(FallbackProjectIds, 1,
                                               Min2(c.i + 10, Len(FallbackProjectIds)))
    /\ MapCompleted =>
          LET m == fallback.cachedProjectCompanyMap[1] IN
          /\ fallback.queried = FallbackProjectIds
          /\ DOMAIN m = Range(FallbackProjectIds)
    /\ fallback.cachedProjectCompanyMap # Undefined =>
          LET m == fallback.cachedProjectCompanyMap[1] IN
          \A pid \in DOMAIN m :
              m[pid] = IF pid \in up.tokenFails THEN <<>>
                       ELSE Ids(ApiProjectCompanies(pid))

\* the second batch is in flight: the ten calls of the first have settled,
\* the first project's call failed and left an empty list, the others
\* their companies
C33_Witness ==
    /\ \E r \in Renders :
          /\ fallback.renders[r].pc = "batch"
          /\ fallback.renders[r].i = 10
          /\ fallback.renders[r].inflight = {11}
    /\ up.tokenFails = {1}
    /\ Len(fallback.queried) = 11
    /\ DOMAIN fallback.cachedProjectCompanyMap[1] = 1..10
    /\ fallback.cachedProjectCompanyMap[1][1] = <<>>
    /\ fallback.cachedProjectCompanyMap[1][2] = <<1, 2>>

\* ------------------------------------------------------------------------
\* Claims about the content script's load and the BUILD_CACHE message
\* ------------------------------------------------------------------------

\* the step is the GET_CACHE answer reaching loadCompaniesCache in tab t
Loads(t) == tabs[t].pc = "start" /\ tabs'[t].pc = "companies"

\* the step sends a BUILD_CACHE message
SendsTrigger == \E i \in Calls : calls[i].pc # "requested" /\ calls'[i].pc = "requested"

\* the step is the worker handling the BUILD_CACHE message of record j
Handles(j) == calls[j].pc = "requested" /\ calls'[j].pc # "requested"

\* C34: loadCompaniesCache sends a build trigger exactly when the cache read
\* returns no cache or a cache flagged stale; a cache that is present, stale
\* or not, is loaded and stays loaded whatever the builds do; a trigger that
\* reaches the worker while another build is unresolved is rejected by the
\* single-flight guard, the rejection leaving the running build, the flag,
\* the store and every tab as they are, so that of the triggers of tabs
\* loading at once one build runs; a trigger that meets no build starts one.
C34_LoadPolicy ==
    [][/\ \A t \in DOMAIN tabs :
            /\ Loads(t) =>
                  /\ SendsTrigger
                       <=> (local.companiesCache = Undefined
                            \/ isCacheStale(local.companiesCacheTimestamp, now))
                  /\ tabs'[t].companiesCache = local.companiesCache
                  /\ \A i \in Calls : calls'[i] # calls[i] => calls'[i].pc = "requested"
                  /\ cacheBuilding' = cacheBuilding /\ local' = local
            /\ ~Loads(t) => tabs'[t].companiesCache = tabs[t].companiesCache
       /\ \A j \in Calls :
            Handles(j) =>
                IF \E i \in Calls \ {j} : Building(i)
                THEN /\ calls'[j].pc = "rejected"
                     /\ calls'[j].result = InProgressError
                     /\ \A i \in Calls \ {j} : calls'[i] = calls[i]
                     /\ cacheBuilding /\ cacheBuilding'
                     /\ tabs' = tabs /\ local' = local /\ session' = session
                ELSE /\ calls'[j].pc = "ensureToken"
                     /\ cacheBuilding'
       /\ Cardinality({ i \in Calls : Building(i) }') <= 1]_vars

\* two tabs have loaded the stale cache and sent their triggers: one build
\* runs, the other trigger was rejected by the guard, both tabs keep the
\* cache they loaded
C34_Witness ==
    /\ isCacheStale(local.companiesCacheTimestamp, now)
    /\ \A t \in DOMAIN tabs :
          /\ tabs[t].pc # "start"
          /\ tabs[t].companiesCache # Undefined
          /\ tabs[t].companiesCache = local.companiesCache
    /\ \E i, j \in Calls :
          /\ calls[i].pc = "companies"
          /\ calls[j].pc = "rejected"
          /\ calls[j].result = InProgressError

\* the BUILD_CACHE message of record i has been answered
Answered(i) == Len(BuildCacheResponses(calls[i])) = 1

\* the companies cache in the store
PersistedCompanies == local.companiesCache[1]

\* C35: a BUILD_CACHE message has no response while its build is unsettled
\* and exactly one from the step that settles it on: {success: true, count}
\* when the build resolved, count being the number of entries of the
\* companies cache the build persisted, which is the cache in the store at
\* that step, or {error: message} with the message of the failure or of the
\* in-progress rejection; and every message delivered to the worker is
\* answered.
C35_OneResponse ==
    /\ [][\A i \in Calls :
            LET before == BuildCacheResponses(calls[i])
                after  == BuildCacheResponses(calls'[i]) IN
            /\ calls[i].pc \in {"requested"} \cup BuildingPcs => before = <<>>
            /\ calls'[i].pc \in {"requested"} \cup BuildingPcs => after = <<>>
            /\ (calls[i].pc \in BuildingPcs /\ calls'[i].pc = "resolved") =>
                  /\ after = <<[success |-> TRUE, count |-> Len(PersistedCompanies')]>>
                  /\ local' = local
                  /\ local.companiesCache = Stored(calls[i].built.companiesCache)
            /\ (calls[i].pc \in {"requested"} \cup BuildingPcs
                  /\ calls'[i].pc = "rejected") =>
                  /\ after = <<[error |-> calls'[i].result]>>
                  /\ calls'[i].result \notin {"none", "resolved"}
                  /\ calls[i].pc = "requested" <=> calls'[i].result = InProgressError
            /\ (calls[i].pc \in {"resolved", "rejected"}
                  /\ calls'[i].pc \in {"resolved", "rejected"}) => after = before]_vars
    /\ \A i \in Calls : (calls[i].pc = "requested") ~> Answered(i)

\* both messages are answered, one with the count of the cache in the store,
\* the other with the in-progress error
C35_Witness ==
    \E i, j \in Calls :
       /\ local.companiesCache # Undefined
       /\ Len(PersistedCompanies) > 0
       /\ BuildCacheResponses(calls[i]) =
             <<[success |-> TRUE, count |-> Len(PersistedCompanies)]>>
       /\ BuildCacheResponses(calls[j]) = <<[error |-> InProgressError]>>

====
